---- MODULE Spec2Model ----
(***************************************************************************)
(* Model of the sample data layer of ccb.io.dataset: BandInfo, Band,       *)
(* Sample, the geotiff / hdf5 writers and loaders and Sample.pack_to_4d.   *)
(*                                                                         *)
(* A pixel value is a pair <<w, f>> standing for the real number           *)
(* w + f * 1e-6 with 0 <= f < 1000000, so that the thresholds 1e-6 and 0.5 *)
(* of write_to_geotiff and the int16 limits are all exact.  A value that   *)
(* went through an inexact float64 -> float32 cast is <<w, f, "f32">>.     *)
(* An array is a record [shape, px]: px lists the values in row-major      *)
(* order.  The file system is a function from path to file content.        *)
(***************************************************************************)
EXTENDS Integers, Sequences, FiniteSets, TLC

VARIABLES
    fs,       \* the file system: path -> file content
    band,     \* the Band object the caller holds
    sample,   \* the Sample object the caller holds
    partition,\* the Partition object the caller holds
    dataset,  \* the Dataset object the caller holds
    cache,    \* the lru_cache of Dataset.load_partition
    gen,      \* the iterator iter_dataset returned, which the caller holds
    ret       \* what the last call returned or raised

vars == <<fs, band, sample, partition, dataset, cache, gen, ret>>

(***************************************************************************)
(* Bounds of the model.                                                    *)
(***************************************************************************)
MaxBands == 2      \* bands in a constructed Sample
MaxDay == 2        \* distinct acquisition days
MaxPix == 2        \* pixels of an array in the single-band specification
MaxNames == 2      \* sample names in one split of a Partition at construction

(***************************************************************************)
(* Program constants.                                                      *)
(***************************************************************************)
Int16Min == -32768
Int16Max == 32767
Half == 500000          \* 0.5 in millionths
NoData == 0

NoneVal == [kind |-> "None"]
NoArg == <<>>
Some(x) == <<x>>

(***************************************************************************)
(* Pixel values.                                                           *)
(***************************************************************************)
V(w, f) == <<w, f>>
IntV(n) == <<n, 0>>

\* v < n and v > n for an integer n
LtInt(v, n) == v[1] < n
GtInt(v, n) == v[1] > n \/ (v[1] = n /\ v[2] > 0)
\* data > 1e-6 and data <= 0.5
GtMicro(v) == v[1] > 0 \/ (v[1] = 0 /\ v[2] > 1)
LeHalf(v) == v[1] < 0 \/ (v[1] = 0 /\ v[2] <= Half)

\* np.round: to the nearest integer, a tie to the even one
NpRound(v) ==
    IF v[2] < Half THEN v[1]
    ELSE IF v[2] > Half THEN v[1] + 1
    ELSE IF v[1] % 2 = 0 THEN v[1] ELSE v[1] + 1

\* astype(np.int16) of an integral value: wraps modulo 2^16
AsInt16(n) == ((n - Int16Min) % 65536) + Int16Min

\* astype(np.float32) of a float64: exact on the integers and halves of the
\* model, inexact on every other fraction
IsDyadic(v) == v[2] = 0 \/ v[2] = Half
AsFloat32(v) == IF IsDyadic(v) THEN v ELSE <<v[1], v[2], "f32">>

RangeSet(s) == {s[i] : i \in 1..Len(s)}
Prod(shape) == IF Len(shape) = 2 THEN shape[1] * shape[2]
               ELSE shape[1] * shape[2] * shape[3]

(***************************************************************************)
(* BandInfo and its variants.                                              *)
(***************************************************************************)
MkInfo(cls, name, alt, res, wl, nb) ==
    [cls |-> cls, name |-> name, alt_names |-> alt,
     spatial_resolution |-> res, wavelength |-> wl, n_bands |-> nb]

\* BandInfo.__key: the name-mangled _BandInfo__key is the one __eq__, __hash__
\* and __lt__ call, for every subclass (SpectralBand.__key is never called)
BandInfoKeyWl(info) == <<info.name, info.wavelength>>
BandInfoKey(info) == info.name

BandInfoHash(info) == BandInfoKey(info)

BandInfoEq(a, b) ==
    IF a.cls = b.cls THEN BandInfoKey(a) = BandInfoKey(b) ELSE FALSE

IsMultiBand(info) == info.cls \in {"MultiBand", "HyperSpectralBands"}
IsLabelType(info) == info.cls = "SegmentationClasses"

\* expand_name
ExpandName(info) ==
    IF IsMultiBand(info) THEN [i \in 1..info.n_bands |-> info.name]
    ELSE <<info.name>>

\* canonical names in str order, for BandInfo.__lt__
SortedNames == <<"B2", "B9", "Cirrus", "HS", "label", "mask">>
NameRank(n) == CHOOSE i \in 1..Len(SortedNames) : SortedNames[i] = n
BandInfoLt(a, b) == NameRank(BandInfoKey(a)) < NameRank(BandInfoKey(b))

S2_B2 == MkInfo("Sentinel2", "B2", <<"2", "blue">>, 10, 490, 0)
S2_B9 == MkInfo("Sentinel2", "B9", <<"9">>, 60, 945, 0)
L8_B2 == MkInfo("Landsat8", "B2", <<"2", "blue">>, 15, 482, 0)
L8_B9 == MkInfo("Landsat8", "Cirrus", <<"9", "cirrus">>, 30, 1370, 0)
HS == MkInfo("MultiBand", "HS", <<>>, 10, 0, 2)
SegLabel == MkInfo("SegmentationClasses", "label", <<>>, 10, 0, 0)
SegMask == MkInfo("SegmentationClasses", "mask", <<>>, 10, 0, 0)
MaskLabel == MkInfo("Mask", "label", <<>>, 10, 0, 0)


(***************************************************************************)
(* Dates: None, a datetime.date, or a datetime.datetime (a subclass of     *)
(* date) with a time of day.                                               *)
(***************************************************************************)
NoDate == [kind |-> "None", day |-> 0, tod |-> 0]
Date(d) == [kind |-> "date", day |-> d, tod |-> 0]
DateTime(d, t) == [kind |-> "datetime", day |-> d, tod |-> t]

DayStr == <<"01", "02", "03", "04", "05", "06", "07", "08", "09">>
TodStr == <<"01-00-00-", "02-00-00-", "03-00-00-">>

\* _format_date: the isinstance(date, datetime.date) branch comes first and
\* takes a datetime too
FormatDate(date) ==
    IF date.kind \in {"date", "datetime"} THEN "2020-01-" \o DayStr[date.day]
    ELSE "NoDate"

(***************************************************************************)
(* Band.                                                                   *)
(***************************************************************************)
MkData(shape, px) == [shape |-> shape, px |-> px]
MkBand(data, info, res, date, conv) ==
    [data |-> data, band_info |-> info, spatial_resolution |-> res,
     date |-> date, date_id |-> date, convert_to_int16 |-> conv]

\* Band.get_descriptor
GetDescriptor(b) ==
    IF b.date # NoDate THEN b.band_info.name \o "_" \o FormatDate(b.date)
    ELSE b.band_info.name

\* np.expand_dims(data, 2) of a 2D array
ExpandDims(data) ==
    IF Len(data.shape) = 2
    THEN [data EXCEPT !.shape = <<data.shape[1], data.shape[2], 1>>]
    ELSE data

OutOfRange(data) ==
    \E i \in 1..Len(data.px) :
        LtInt(data.px[i], Int16Min) \/ GtInt(data.px[i], Int16Max)
RoundsToNoDataOpen(data) ==
    \E i \in 1..Len(data.px) :
        GtMicro(data.px[i]) /\ LeHalf(data.px[i]) /\ data.px[i] # V(0, Half)
RoundsToNoData(data) ==
    \E i \in 1..Len(data.px) : GtMicro(data.px[i]) /\ LeHalf(data.px[i])

FileName(b) == GetDescriptor(b) \o ".tif"
TifPath(directory, b) == directory \o "/" \o FileName(b)

\* the file rasterio writes: the pickled tags, the planes and the nodata value
TifFile(b, data) ==
    [kind |-> "tif",
     tags |-> [date |-> b.date, date_id |-> b.date_id,
               spatial_resolution |-> b.spatial_resolution,
               band_info |-> b.band_info],
     data |-> data,
     nodata |-> NoData]

\* the checks of write_to_geotiff, in the order the code makes them
WriteErrorNoRange(b) ==
    IF ~b.convert_to_int16 THEN "ok"
    ELSE IF RoundsToNoData(ExpandDims(b.data)) THEN "PrecisionLossError"
    ELSE "ok"
WriteError(b) ==
    IF ~b.convert_to_int16 THEN "ok"
    ELSE IF OutOfRange(ExpandDims(b.data)) THEN "RangeError"
    ELSE IF RoundsToNoData(ExpandDims(b.data)) THEN "PrecisionLossError"
    ELSE "ok"

\* the array write_to_geotiff hands to rasterio
Converted(b) ==
    LET data == ExpandDims(b.data) IN
    IF b.convert_to_int16
    THEN [data EXCEPT !.px = [i \in 1..Len(data.px) |->
                                 IntV(AsInt16(NpRound(data.px[i])))]]
    ELSE [data EXCEPT !.px = [i \in 1..Len(data.px) |-> AsFloat32(data.px[i])]]

\* write_to_geotiff: the outcome and the file system it leaves
WriteToGeotiff(b, directory, files) ==
    IF WriteError(b) # "ok"
    THEN [status |-> WriteError(b), path |-> "", fs |-> files]
    ELSE LET p == TifPath(directory, b)
             f == TifFile(b, Converted(b))
         IN [status |-> "ok", path |-> p,
             fs |-> [q \in (DOMAIN files) \cup {p} |->
                        IF q = p THEN f ELSE files[q]]]

\* load_band_tif of an existing geotiff
LoadBandTifNoSqueeze(file) ==
    [status |-> "ok",
     band |-> MkBand(file.data, file.tags.band_info,
                     file.tags.spatial_resolution, file.tags.date, TRUE)]
LoadBandTif(file) ==
    LET info == file.tags.band_info
        data == file.data
    IN IF ~IsMultiBand(info)
       THEN IF data.shape[3] # 1
            THEN [status |-> "AssertionError", band |-> NoneVal]
            ELSE [status |-> "ok",
                  band |-> MkBand([data EXCEPT !.shape = <<data.shape[1], data.shape[2]>>],
                                  info, file.tags.spatial_resolution,
                                  file.tags.date, TRUE)]
       ELSE [status |-> "ok",
             band |-> MkBand(data, info, file.tags.spatial_resolution,
                             file.tags.date, TRUE)]

(***************************************************************************)
(* Sample: the bands, the label, the name and the index _build_index makes *)
(* at construction (and never refreshes).                                  *)
(***************************************************************************)
DateLt(a, b) == a.day < b.day \/ (a.day = b.day /\ a.tod < b.tod)

\* list.sort of the distinct dates raises TypeError when it has to compare
\* None with a date, or a date with a datetime
DatesSortable(S) == Cardinality({d.kind : d \in S}) <= 1

\* _make_map: the distinct dates in ascending order (date_map is the
\* position in that list)
MakeMap(S) ==
    CHOOSE s \in [1..Cardinality(S) -> S] :
        /\ RangeSet(s) = S
        /\ \A i, j \in 1..Cardinality(S) : i < j => DateLt(s[i], s[j])
IndexOf(s, x) == CHOOSE i \in 1..Len(s) : s[i] = x

\* the keys of the OrderedDict band_info_set after the first n bands: a
\* BandInfo is a new key unless it equals (hash and __eq__) an earlier key
RECURSIVE InfoKeys(_, _)
InfoKeys(bands, n) ==
    IF n = 0 THEN <<>>
    ELSE LET prev == InfoKeys(bands, n - 1)
             info == bands[n].band_info
         IN IF \E i \in 1..Len(prev) :
                    BandInfoHash(prev[i]) = BandInfoHash(info) /\ BandInfoEq(prev[i], info)
            THEN prev
            ELSE Append(prev, info)

\* _map_bands: the list is kept in insertion order (the sort is commented
\* out); a name or alias maps to the last band_info that carries it
PossibleNamesCanonicalOnly(info) == {info.name}
PossibleNames(info) == {info.name} \cup RangeSet(info.alt_names)
MapBandsList(infos) == infos
BandNameMapAltFirst(list) ==
    [n \in UNION {PossibleNames(list[i]) : i \in 1..Len(list)} |->
        IF \E i \in 1..Len(list) : list[i].name = n
        THEN CHOOSE i \in 1..Len(list) :
                /\ n \in PossibleNames(list[i])
                /\ \A j \in 1..Len(list) : n \in PossibleNames(list[j]) => j <= i
        ELSE 1]
BandNameMap(list) ==
    [n \in UNION {PossibleNames(list[i]) : i \in 1..Len(list)} |->
        CHOOSE i \in 1..Len(list) :
            /\ n \in PossibleNames(list[i])
            /\ \A j \in 1..Len(list) : n \in PossibleNames(list[j]) => j <= i]

\* the grid: cell (date, band) holds the last band of the list with that date
\* and that name, None when there is none
BandArrayFirstWins(bands, dates, n_infos, name_map) ==
    [c \in (1..Len(dates)) \X (1..n_infos) |->
        LET hits == {k \in 1..Len(bands) :
                        /\ IndexOf(dates, bands[k].date) = c[1]
                        /\ name_map[bands[k].band_info.name] = c[2]}
        IN IF hits = {} THEN NoneVal
           ELSE bands[CHOOSE k \in hits : \A k2 \in hits : k <= k2]]
BandArray(bands, dates, n_infos, name_map) ==
    [c \in (1..Len(dates)) \X (1..n_infos) |->
        LET hits == {k \in 1..Len(bands) :
                        /\ IndexOf(dates, bands[k].date) = c[1]
                        /\ name_map[bands[k].band_info.name] = c[2]}
        IN IF hits = {} THEN NoneVal
           ELSE bands[CHOOSE k \in hits : \A k2 \in hits : k2 <= k]]

SampleDates(bands) == {bands[k].date : k \in 1..Len(bands)}

\* Sample.__init__ can raise: the sort of the dates
SampleInitError(bands) ==
    IF DatesSortable(SampleDates(bands)) THEN "ok" ELSE "TypeError"

\* Sample.__init__ and _build_index
MkSample(bands, label, name) ==
    LET dates == MakeMap(SampleDates(bands))
        infos == MapBandsList(InfoKeys(bands, Len(bands)))
        name_map == BandNameMap(infos)
    IN [bands |-> bands, label |-> label, sample_name |-> name,
        dates |-> dates,
        band_info_list |-> infos,
        band_name_map |-> name_map,
        band_names |-> [i \in 1..Len(infos) |-> infos[i].name],
        band_array |-> BandArray(bands, dates, Len(infos), name_map)]

\* get_band_info
GetBandInfo(s, name) == s.band_info_list[s.band_name_map[name]]

(***************************************************************************)
(* Writing and loading a Sample.  A label is None, a plain value           *)
(* [kind, type, value] or a Band.                                          *)
(***************************************************************************)
IsBand(x) == "data" \in DOMAIN x
PlainLabel(type, value) == [kind |-> "plain", type |-> type, value |-> value]

\* json.load(json.dump(label)): a tuple comes back as a list
JsonRoundTrip(label) ==
    IF label.type = "tuple" THEN [label EXCEPT !.type = "list"] ELSE label

Put(files, p, f) == [q \in (DOMAIN files) \cup {p} |-> IF q = p THEN f ELSE files[q]]

\* the loop of write_sample_tif over the first n bands: it stops at the first
\* band whose write raises, the files written before stay
RECURSIVE WriteBands(_, _, _, _)
WriteBands(bands, n, dst_dir, files) ==
    IF n = 0 THEN [status |-> "ok", fs |-> files, paths |-> <<>>]
    ELSE LET prev == WriteBands(bands, n - 1, dst_dir, files) IN
         IF prev.status # "ok" THEN prev
         ELSE LET r == WriteToGeotiff(bands[n], dst_dir, prev.fs) IN
              IF r.status # "ok"
              THEN [status |-> r.status, fs |-> prev.fs, paths |-> prev.paths]
              ELSE [status |-> "ok", fs |-> r.fs, paths |-> Append(prev.paths, r.path)]

\* band_index: canonical name -> file names, names in order of first use
RECURSIVE NamesInOrder(_, _)
NamesInOrder(bands, n) ==
    IF n = 0 THEN <<>>
    ELSE LET prev == NamesInOrder(bands, n - 1) IN
         IF bands[n].band_info.name \in RangeSet(prev) THEN prev
         ELSE Append(prev, bands[n].band_info.name)
RECURSIVE FilesOf(_, _, _)
FilesOf(bands, n, name) ==
    IF n = 0 THEN <<>>
    ELSE IF bands[n].band_info.name = name
         THEN Append(FilesOf(bands, n - 1, name), FileName(bands[n]))
         ELSE FilesOf(bands, n - 1, name)
BandIndex(bands) ==
    LET names == NamesInOrder(bands, Len(bands)) IN
    [i \in 1..Len(names) |->
        [name |-> names[i], files |-> FilesOf(bands, Len(bands), names[i])]]

\* write_sample_tif
WriteSampleTifNoDuplicateCheck(s, dataset_dir, files) ==
    LET dst_dir == dataset_dir \o "/" \o s.sample_name
        w == WriteBands(s.bands, Len(s.bands), dst_dir, files)
    IN [status |-> w.status, fs |-> w.fs]
WriteSampleTif(s, dataset_dir, files) ==
    LET dst_dir == dataset_dir \o "/" \o s.sample_name
        w == WriteBands(s.bands, Len(s.bands), dst_dir, files)
    IN IF w.status # "ok" THEN [status |-> w.status, fs |-> w.fs]
       ELSE IF Cardinality(RangeSet(w.paths)) # Len(s.bands)
       THEN [status |-> "DuplicateBandError", fs |-> w.fs]
       ELSE
       LET fs1 == Put(w.fs, dst_dir \o "/band_index.json",
                      [kind |-> "json", value |-> BandIndex(s.bands)])
       IN IF s.label = NoneVal THEN [status |-> "ok", fs |-> fs1]
          ELSE IF IsBand(s.label)
          THEN IF ~IsLabelType(s.label.band_info)
               THEN [status |-> "ValueError", fs |-> fs1]
               ELSE LET r == WriteToGeotiff(s.label, dst_dir, fs1) IN
                    [status |-> r.status, fs |-> r.fs]
          ELSE [status |-> "ok",
                fs |-> Put(fs1, dst_dir \o "/label.json",
                           [kind |-> "json", value |-> JsonRoundTrip(s.label)])]

\* the loading loop of load_sample_tif over the first n file names
RECURSIVE LoadFiles(_, _, _, _)
LoadFiles(names, n, sample_dir, files) ==
    IF n = 0 THEN [status |-> "ok", bands |-> <<>>]
    ELSE LET prev == LoadFiles(names, n - 1, sample_dir, files) IN
         IF prev.status # "ok" THEN prev
         ELSE IF (sample_dir \o "/" \o names[n]) \notin DOMAIN files
         THEN [status |-> "FileNotFoundError", bands |-> prev.bands]
         ELSE LET r == LoadBandTif(files[sample_dir \o "/" \o names[n]]) IN
              IF r.status # "ok" THEN [status |-> r.status, bands |-> prev.bands]
              ELSE [status |-> "ok", bands |-> Append(prev.bands, r.band)]

RECURSIVE IndexedFiles(_, _, _)
IndexedFiles(index, band_names, n) ==
    IF n = 0 THEN <<>>
    ELSE IndexedFiles(index, band_names, n - 1)
           \o index[CHOOSE i \in 1..Len(index) : index[i].name = band_names[n]].files

\* load_sample_tif: label.json is looked for before label.tif, and when
\* neither exists the name label is never bound
LoadSampleTif(sample_dir, name, band_names, files) ==
    IF (sample_dir \o "/band_index.json") \notin DOMAIN files
    THEN [status |-> "FileNotFoundError"]
    ELSE
    LET index == files[sample_dir \o "/band_index.json"].value
        names == IF band_names = NoArg THEN [i \in 1..Len(index) |-> index[i].name]
                 ELSE band_names[1]
        unknown == {j \in 1..Len(names) : \A i \in 1..Len(index) : index[i].name # names[j]}
        known == IF unknown = {} THEN Len(names)
                 ELSE (CHOOSE j \in unknown : \A k \in unknown : j <= k) - 1
        file_names == IndexedFiles(index, names, known)
        l == LoadFiles(file_names, Len(file_names), sample_dir, files)
        label == IF (sample_dir \o "/label.json") \in DOMAIN files
                 THEN [status |-> "ok", label |-> files[sample_dir \o "/label.json"].value]
                 ELSE IF (sample_dir \o "/label.tif") \in DOMAIN files
                 THEN LET r == LoadBandTif(files[sample_dir \o "/label.tif"]) IN
                      [status |-> r.status, label |-> r.band]
                 ELSE [status |-> "UnboundLocalError", label |-> NoneVal]
    IN IF l.status # "ok" THEN [status |-> l.status]
       ELSE IF unknown # {} THEN [status |-> "KeyError"]
       ELSE IF label.status # "ok" THEN [status |-> label.status]
       ELSE IF SampleInitError(l.bands) # "ok"
       THEN [status |-> SampleInitError(l.bands)]
       ELSE [status |-> "ok", sample |-> MkSample(l.bands, label.label, name)]

\* the create_dataset loop of write_sample_hdf5 over the first n bands: a
\* second dataset of the same name cannot be created
RECURSIVE CreateDatasets(_, _)
CreateDatasets(bands, n) ==
    IF n = 0 THEN [status |-> "ok", datasets |-> <<>>]
    ELSE LET prev == CreateDatasets(bands, n - 1) IN
         IF prev.status # "ok" THEN prev
         ELSE IF \E i \in 1..Len(prev.datasets) :
                    prev.datasets[i].name = bands[n].band_info.name
         THEN [status |-> "DatasetExistsError", datasets |-> prev.datasets]
         ELSE [status |-> "ok",
               datasets |-> Append(prev.datasets,
                                   [name |-> bands[n].band_info.name,
                                    data |-> bands[n].data])]

BandAttrs(b) ==
    [date |-> b.date, date_id |-> b.date_id,
     spatial_resolution |-> b.spatial_resolution, band_info |-> b.band_info]

\* attr_dict: the plain label under "label", then one entry per band name
AttrDict(bands, label) ==
    LET names == {bands[i].band_info.name : i \in 1..Len(bands)}
        keys == names \cup (IF label # NoneVal /\ ~IsBand(label) THEN {"label"} ELSE {})
    IN [k \in keys |->
          IF k \in names
          THEN BandAttrs(bands[CHOOSE i \in 1..Len(bands) :
                                 /\ bands[i].band_info.name = k
                                 /\ \A j \in (i + 1)..Len(bands) :
                                       bands[j].band_info.name # k])
          ELSE label]

Hdf5File(datasets, pickle) == [kind |-> "hdf5", datasets |-> datasets, pickle |-> pickle]

\* write_sample_hdf5: bands is sample.bands itself, so a Band label is
\* appended to the sample's own list
WriteSampleHdf5(s, dataset_dir, files) ==
    LET sample_path == dataset_dir \o "/" \o s.sample_name \o ".hdf5"
        band_label == s.label # NoneVal /\ IsBand(s.label)
    IN IF band_label /\ ~IsLabelType(s.label.band_info)
       THEN [status |-> "ValueError", sample |-> s,
             fs |-> Put(files, sample_path, Hdf5File(<<>>, NoArg))]
       ELSE
       LET bands == IF band_label THEN Append(s.bands, s.label) ELSE s.bands
           c == CreateDatasets(bands, Len(bands))
       IN [status |-> c.status,
           sample |-> [s EXCEPT !.bands = bands],
           fs |-> Put(files, sample_path,
                      Hdf5File(c.datasets,
                               IF c.status = "ok" THEN Some(AttrDict(bands, s.label))
                               ELSE NoArg))]

HasDataset(file, name) == \E i \in 1..Len(file.datasets) : file.datasets[i].name = name
Dataset(file, name) ==
    file.datasets[CHOOSE i \in 1..Len(file.datasets) : file.datasets[i].name = name].data

\* Band(data=np.array(h5_band), **attr_dict[band_name])
Hdf5Band(file, name) ==
    LET attrs == file.pickle[1][name] IN
    MkBand(Dataset(file, name), attrs.band_info, attrs.spatial_resolution, attrs.date, TRUE)

\* load_sample_hdf5 with label_only=False
LoadSampleHdf5(sample_path, name, band_names, files) ==
    IF sample_path \notin DOMAIN files THEN [status |-> "FileNotFoundError"]
    ELSE
    LET file == files[sample_path] IN
    IF file.pickle = NoArg THEN [status |-> "KeyError"]
    ELSE
    LET attr_dict == file.pickle[1]
        label == IF HasDataset(file, "label") THEN Hdf5Band(file, "label")
                 ELSE IF "label" \in DOMAIN attr_dict THEN attr_dict["label"]
                 ELSE NoneVal
    IN IF band_names = NoArg THEN [status |-> "TypeError"]
       ELSE
       LET names == band_names[1]
           bands == [i \in 1..Len(names) |-> Hdf5Band(file, names[i])]
       IN IF \E i \in 1..Len(names) : ~HasDataset(file, names[i])
          THEN [status |-> "KeyError"]
          ELSE IF SampleInitError(bands) # "ok"
          THEN [status |-> SampleInitError(bands)]
          ELSE [status |-> "ok", sample |-> MkSample(bands, label, name)]

\* load_sample
LoadSample(sample_path, name, band_names, format, files) ==
    IF format = "tif" THEN LoadSampleTif(sample_path, name, band_names, files)
    ELSE IF format = "hdf5" THEN LoadSampleHdf5(sample_path, name, band_names, files)
    ELSE [status |-> "KeyError"]

(***************************************************************************)
(* Sample.pack_to_4d.  An optional argument is <<>> (None) or <<x>>.       *)
(***************************************************************************)

\* get_band_array: the sub-grid of the selected dates and band names; an
\* unknown name or date is a KeyError
GetBandArray(s, dates, band_names) ==
    LET n_infos == Len(s.band_info_list)
        names == IF band_names = NoArg THEN s.band_names ELSE band_names[1]
        dts == IF dates = NoArg THEN s.dates ELSE dates[1]
        bad == \/ /\ band_names # NoArg
                  /\ \E j \in 1..Len(names) : names[j] \notin DOMAIN s.band_name_map
               \/ /\ dates # NoArg
                  /\ \E i \in 1..Len(dts) : dts[i] \notin RangeSet(s.dates)
        col(j) == IF band_names = NoArg THEN j ELSE s.band_name_map[names[j]]
        row(i) == IF dates = NoArg THEN i ELSE IndexOf(s.dates, dts[i])
        n_cols == IF band_names = NoArg THEN n_infos ELSE Len(names)
    IN IF bad
       THEN [status |-> "KeyError"]
       ELSE [status |-> "ok", dates |-> dts, band_names |-> names,
             n_rows |-> Len(dts), n_cols |-> n_cols,
             grid |-> [c \in (1..Len(dts)) \X (1..n_cols) |->
                          s.band_array[<<row(c[1]), col(c[2])>>]]]

Max(S) == CHOOSE x \in S : \A y \in S : y <= x

\* _largest_shape
LargestShape(grid) ==
    LET present == {c \in DOMAIN grid : grid[c] # NoneVal}
    IN <<Max({0} \cup {grid[c].data.shape[1] : c \in present}),
         Max({0} \cup {grid[c].data.shape[2] : c \in present})>>

IsUniform(px) == \A k \in 1..Len(px) : px[k] = px[1]

\* scipy.ndimage.zoom to the target height and width: a constant array stays
\* constant, any other array is interpolated
Zoom(data, shape) ==
    [shape |-> <<shape[1], shape[2], data.shape[3]>>,
     px |-> [k \in 1..(shape[1] * shape[2] * data.shape[3]) |->
                IF IsUniform(data.px) THEN data.px[1] ELSE <<"interpolated">>]]

\* np.zeros(shape, dtype=np.int16) + fill_value: a 2D plane
FillPlane(shape, fill_value) ==
    [shape |-> shape, px |-> [k \in 1..(shape[1] * shape[2]) |-> IntV(fill_value)]]

\* one cell of the loop of pack_to_4d: what is appended to data_list, or the
\* error raised.  The message of the missing-band error formats the date
\* with ":s", which None does not support; the message of the shape error
\* formats a tuple with ":s", which no tuple supports.
PackCellNoZoomCheck(cell, date, shape, resample, fill_value) ==
    IF cell = NoneVal
    THEN IF fill_value # NoArg
         THEN [status |-> "ok", data |-> FillPlane(shape, fill_value[1])]
         ELSE [status |-> "MissingBandError"]
    ELSE LET data == ExpandDims(cell.data) IN
         IF <<data.shape[1], data.shape[2]>> # shape /\ resample
         THEN [status |-> "ok", data |-> Zoom(data, shape)]
         ELSE [status |-> "ok", data |-> data]
PackCell(cell, date, shape, resample, fill_value) ==
    IF cell = NoneVal
    THEN IF fill_value # NoArg
         THEN [status |-> "ok", data |-> FillPlane(shape, fill_value[1])]
         ELSE IF date = NoDate
              THEN [status |-> "TypeError"]
              ELSE [status |-> "MissingBandError"]
    ELSE LET data == ExpandDims(cell.data) IN
         IF <<data.shape[1], data.shape[2]>> # shape
         THEN IF resample
              THEN IF shape[1] * data.shape[2] # shape[2] * data.shape[1]
                   THEN [status |-> "NonUniformZoomError"]
                   ELSE [status |-> "ok", data |-> Zoom(data, shape)]
              ELSE [status |-> "TypeError"]
         ELSE [status |-> "ok", data |-> data]

\* np.concatenate(data_list, axis=2) of one row: every array must be 3D
ConcatError(cells) ==
    IF \E j \in 1..Len(cells) : Len(cells[j].data.shape) # 3
    THEN "ConcatenateError"
    ELSE "ok"

\* one row of the grid: the first cell that raises stops it, then the
\* concatenation
PackRow(g, i, shape, resample, fill_value) ==
    LET cells == [j \in 1..g.n_cols |->
                     PackCell(g.grid[<<i, j>>], g.dates[i], shape, resample, fill_value)]
        failed == {j \in 1..g.n_cols : cells[j].status # "ok"}
    IN IF failed # {}
       THEN [status |-> cells[CHOOSE j \in failed : \A k \in failed : j <= k].status]
       ELSE IF ConcatError(cells) # "ok"
       THEN [status |-> ConcatError(cells)]
       ELSE [status |-> "ok", cells |-> [j \in 1..g.n_cols |-> cells[j].data]]

\* the names of the output channels
RECURSIVE ExpandNames(_, _, _)
ExpandNames(s, names, n) ==
    IF n = 0 THEN <<>>
    ELSE ExpandNames(s, names, n - 1) \o ExpandName(GetBandInfo(s, names[n]))

RECURSIVE SumChannels(_, _)
SumChannels(cells, n) ==
    IF n = 0 THEN 0 ELSE SumChannels(cells, n - 1) + cells[n].shape[3]

\* pack_to_4d
PackTo4d(s, dates, band_names, resample, fill_value) ==
    LET g == GetBandArray(s, dates, band_names) IN
    IF g.status # "ok" THEN [status |-> g.status]
    ELSE
    LET shape == LargestShape(g.grid)
        rows == [i \in 1..g.n_rows |-> PackRow(g, i, shape, resample, fill_value)]
        failed == {i \in 1..g.n_rows : rows[i].status # "ok"}
    IN IF failed # {}
       THEN [status |-> rows[CHOOSE i \in failed : \A k \in failed : i <= k].status]
       ELSE [status |-> "ok",
             array |-> [shape |-> <<g.n_rows, shape[1], shape[2],
                                    SumChannels(rows[1].cells, g.n_cols)>>,
                        cells |-> [c \in (1..g.n_rows) \X (1..g.n_cols) |->
                                      rows[c[1]].cells[c[2]]]],
             dates |-> g.dates,
             band_names |-> ExpandNames(s, g.band_names, Len(g.band_names))]

(***************************************************************************)
(* The single-band specification: a caller holds one Band, writes it into  *)
(* a directory that is empty or already holds a file of the same name, and *)
(* loads files back.                                                       *)
(***************************************************************************)
BandDir == "d"

PixelValues ==
    {IntV(0), V(0, 1), V(0, 300000), V(0, Half), V(0, 600000), IntV(1),
     V(-1, 700000), V(2, Half), IntV(Int16Max), V(Int16Max, 400000),
     IntV(Int16Min), V(Int16Min - 1, 600000), IntV(40000), IntV(-40000)}
PairValues == {V(0, 300000), V(0, 600000), IntV(1), IntV(40000)}

\* the value lists of up to n pixels
RECURSIVE PxLists(_)
PxLists(n) ==
    IF n = 1 THEN {<<v>> : v \in PixelValues}
    ELSE PxLists(n - 1) \cup [1..n -> PairValues]

\* the 2D and 3D shapes an n-pixel row can have
ShapesOf(n) == {<<1, n>>, <<1, n, 1>>, <<1, 1, n>>}

BandData == {MkData(sh, px) : sh \in ShapesOf(1), px \in PxLists(1)}
            \cup {d \in {MkData(sh, px) : sh \in UNION {ShapesOf(n) : n \in 2..MaxPix},
                                         px \in PxLists(MaxPix)} :
                    Prod(d.shape) = Len(d.px)}

BandDates == {NoDate, DateTime(1, 1)} \cup {Date(d) : d \in 1..MaxDay}

BandPool ==
    {MkBand(d, info, 10, date, conv) :
        d \in BandData, info \in {S2_B2, HS}, date \in BandDates,
        conv \in BOOLEAN}

\* the file an earlier write of a band of the same name and date left
StaleBand(b) == MkBand(MkData(<<1, 1>>, <<IntV(7)>>), b.band_info, 10, b.date, TRUE)
StaleFs(b) == WriteToGeotiff(StaleBand(b), BandDir, <<>>).fs

NoSample == [kind |-> "None"]
NoRet == [op |-> "none"]

InitBand ==
    /\ partition = NoneVal
    /\ dataset = NoneVal
    /\ cache = <<>>
    /\ gen = NoneVal
    /\ band \in BandPool
    /\ fs \in {<<>>, StaleFs(band)}
    /\ sample = NoSample
    /\ ret = NoRet

\* band.write_to_geotiff(BandDir)
BandWrite ==
    LET r == WriteToGeotiff(band, BandDir, fs) IN
    /\ fs' = r.fs
    /\ ret' = [op |-> "write_to_geotiff", status |-> r.status, path |-> r.path]
    /\ UNCHANGED <<band, sample, partition, dataset, cache, gen>>

\* load_band_tif(path) of a file of the directory
BandLoad ==
    \E p \in DOMAIN fs :
        LET r == LoadBandTif(fs[p]) IN
        /\ ret' = [op |-> "load_band_tif", status |-> r.status, path |-> p,
                   band |-> r.band]
        /\ UNCHANGED <<fs, band, sample, partition, dataset, cache, gen>>

NextBand == BandWrite \/ BandLoad

SpecBand == InitBand /\ [][NextBand]_vars

(***************************************************************************)
(* The BandInfo specification: two BandInfo objects of any variants and    *)
(* any field values are compared and hashed.                               *)
(***************************************************************************)
InfoClasses == {"BandInfo", "SpectralBand", "Sentinel2", "Landsat8", "Mask",
                "MultiBand", "SegmentationClasses"}
\* the fields other than the class and the name, in two settings
OtherFields == {<<(<<>>), 10, 490>>, <<(<<"blue">>), 20, 560>>}
InfoPool ==
    {MkInfo(cls, name, o[1], o[2], o[3], 0) :
        cls \in InfoClasses, name \in {"B2", "B9"}, o \in OtherFields}

InitInfo ==
    /\ band = NoneVal
    /\ partition = NoneVal
    /\ dataset = NoneVal
    /\ cache = <<>>
    /\ gen = NoneVal
    /\ fs = <<>>
    /\ sample = NoSample
    /\ ret = NoRet

\* a == b, hash(a) and hash(b)
BandInfoCompare ==
    /\ ret = NoRet
    /\ \E a \in InfoPool, b \in InfoPool :
        /\ ret' = [op |-> "eq", a |-> a, b |-> b, eq |-> BandInfoEq(a, b),
                   hash_a |-> BandInfoHash(a), hash_b |-> BandInfoHash(b)]
        /\ UNCHANGED <<fs, band, sample, partition, dataset, cache, gen>>

NextInfo == BandInfoCompare

SpecInfo == InitInfo /\ [][NextInfo]_vars

(***************************************************************************)
(* The packing specification: a Sample of up to MaxBands bands is packed   *)
(* with every choice of the arguments.                                     *)
(***************************************************************************)
PackShapes == {<<1, 1>>, <<2, 2>>, <<1, 2>>}
PackData ==
    {MkData(sh, [k \in 1..Prod(sh) |-> IntV(Prod(sh))]) : sh \in PackShapes}
PackDates == {NoDate} \cup {Date(d) : d \in 1..MaxDay}
PackBands ==
    {MkBand(d, info, 10, date, TRUE) :
        d \in PackData, info \in {S2_B2, S2_B9, L8_B2, L8_B9}, date \in PackDates}

BandLists(pool) == UNION {[1..n -> pool] : n \in 1..MaxBands}

InitPack ==
    /\ band = NoneVal
    /\ partition = NoneVal
    /\ dataset = NoneVal
    /\ cache = <<>>
    /\ gen = NoneVal
    /\ fs = <<>>
    /\ ret = NoRet
    /\ \E bands \in BandLists(PackBands) :
          /\ SampleInitError(bands) = "ok"
          /\ sample = MkSample(bands, NoneVal, "s1")

PackDateArgs == {NoArg, Some(<<Date(1)>>)}
PackNameArgs ==
    {NoArg, Some(<<"B2">>), Some(<<"blue">>), Some(<<"B9">>), Some(<<"9">>),
     Some(<<"B9", "B2">>)}
FillArgs == {NoArg, Some(0), Some(5)}

\* sample.pack_to_4d(dates, band_names, resample, fill_value), called on the
\* freshly constructed Sample
Pack ==
    /\ ret = NoRet
    /\ \E dates \in PackDateArgs, names \in PackNameArgs,
       resample \in BOOLEAN, fill_value \in FillArgs :
          /\ ret' = [op |-> "pack_to_4d", dates |-> dates, band_names |-> names,
                     resample |-> resample, fill_value |-> fill_value,
                     out |-> PackTo4d(sample, dates, names, resample, fill_value)]
          /\ UNCHANGED <<fs, band, sample, partition, dataset, cache, gen>>

NextPack == Pack

SpecPack == InitPack /\ [][NextPack]_vars

(***************************************************************************)
(* Specification of writing a Sample to a dataset directory in either      *)
(* format and loading it back.                                             *)
(***************************************************************************)
DatasetDir == "ds"
SampleName == "s1"
SampleDir == DatasetDir \o "/" \o SampleName
Hdf5Path == DatasetDir \o "/" \o SampleName \o ".hdf5"

SampleData == {MkData(<<1, 1>>, <<IntV(1)>>),
               MkData(<<1, 1>>, <<V(0, 600000)>>),
               MkData(<<1, 1>>, <<IntV(40000)>>)}
SampleBands ==
    {MkBand(d, info, 10, date, TRUE) :
        d \in SampleData, info \in {S2_B2, S2_B9},
        date \in {NoDate} \cup {Date(k) : k \in 1..MaxDay}}
LabelData == MkData(<<1, 1>>, <<IntV(1)>>)
Labels ==
    {NoneVal, PlainLabel("int", 7), PlainLabel("tuple", <<1, 2>>),
     MkBand(LabelData, SegLabel, 10, NoDate, TRUE),
     MkBand(LabelData, SegMask, 10, NoDate, TRUE),
     MkBand(LabelData, MaskLabel, 10, NoDate, TRUE)}

InitSample ==
    /\ band = NoneVal
    /\ partition = NoneVal
    /\ dataset = NoneVal
    /\ cache = <<>>
    /\ gen = NoneVal
    /\ fs = <<>>
    /\ ret = NoRet
    /\ \E bands \in BandLists(SampleBands), label \in Labels :
          /\ SampleInitError(bands) = "ok"
          /\ sample = MkSample(bands, label, SampleName)

\* sample.write(dataset_dir, format="tif")
WriteTif ==
    LET w == WriteSampleTif(sample, DatasetDir, fs) IN
    /\ fs' = w.fs
    /\ ret' = [op |-> "write", format |-> "tif", status |-> w.status]
    /\ UNCHANGED <<band, sample, partition, dataset, cache, gen>>

\* sample.write(dataset_dir, format="hdf5")
WriteHdf5 ==
    /\ Len(sample.bands) <= MaxBands
    /\ LET w == WriteSampleHdf5(sample, DatasetDir, fs) IN
       /\ fs' = w.fs
       /\ sample' = w.sample
       /\ ret' = [op |-> "write", format |-> "hdf5", status |-> w.status]
    /\ UNCHANGED <<band, partition, dataset, cache, gen>>

LoadNameArgs == {NoArg, Some(sample.band_names)}

\* load_sample(sample_dir, band_names, format="tif")
LoadTif ==
    \E band_names \in LoadNameArgs :
       /\ ret' = [op |-> "load", format |-> "tif", band_names |-> band_names,
                  out |-> LoadSample(SampleDir, SampleName, band_names, "tif", fs)]
       /\ UNCHANGED <<fs, band, sample, partition, dataset, cache, gen>>

\* load_sample(sample_path, band_names, format="hdf5")
LoadHdf5 ==
    \E band_names \in LoadNameArgs :
       /\ ret' = [op |-> "load", format |-> "hdf5", band_names |-> band_names,
                  out |-> LoadSample(Hdf5Path, SampleName, band_names, "hdf5", fs)]
       /\ UNCHANGED <<fs, band, sample, partition, dataset, cache, gen>>

NextSample == WriteTif \/ WriteHdf5 \/ LoadTif \/ LoadHdf5
SpecSample == InitSample /\ [][NextSample]_vars

(***************************************************************************)
(* Partition.  partition_dict is a dict, which keeps the order of its       *)
(* keys: a sequence of [split, names] with pairwise distinct splits.        *)
(***************************************************************************)
SplitNames == {"train", "valid", "test"}
Entry(split, names) == [split |-> split, names |-> names]
Keys(d) == [i \in 1..Len(d) |-> d[i].split]
HasKey(d, k) == \E i \in 1..Len(d) : d[i].split = k
Get(d, k) == d[CHOOSE i \in 1..Len(d) : d[i].split = k].names

\* Partition.check_split_name
CheckSplitName(split_name) ==
    IF split_name \notin SplitNames THEN "InvalidSplitError" ELSE "ok"

\* Partition.__init__: the dict of three empty lists, or the given dict when
\* all of its keys are split names
EmptyPartitionDict == <<Entry("train", <<>>), Entry("valid", <<>>), Entry("test", <<>>)>>
PartitionInit(partition_dict) ==
    IF partition_dict = NoArg
    THEN [status |-> "ok", partition |-> [partition_dict |-> EmptyPartitionDict]]
    ELSE IF \E i \in 1..Len(partition_dict[1]) :
               CheckSplitName(partition_dict[1][i].split) # "ok"
    THEN [status |-> "InvalidSplitError"]
    ELSE [status |-> "ok", partition |-> [partition_dict |-> partition_dict[1]]]

\* Partition.add: the split name is checked, then the list of that key is
\* looked up in the dict and appended to
PartitionAdd(p, split_name, sample_name) ==
    IF CheckSplitName(split_name) # "ok"
    THEN [status |-> CheckSplitName(split_name), partition |-> p]
    ELSE IF ~HasKey(p.partition_dict, split_name)
    THEN [status |-> "KeyError", partition |-> p]
    ELSE [status |-> "ok",
          partition |->
             [partition_dict |->
                 [i \in 1..Len(p.partition_dict) |->
                     IF p.partition_dict[i].split = split_name
                     THEN Entry(split_name, Append(p.partition_dict[i].names, sample_name))
                     ELSE p.partition_dict[i]]]]

RECURSIVE AllNames(_, _)
AllNames(d, n) == IF n = 0 THEN <<>> ELSE AllNames(d, n - 1) \o d[n].names
HasRepeat(names) == Cardinality(RangeSet(names)) # Len(names)

\* check_partition_integrity: a warning for every empty split, an assertion
\* on the names of every split, then one on the names of all splits
CheckPartitionIntegrityNoOverlap(p) ==
    [status |-> IF \E i \in 1..Len(p.partition_dict) : HasRepeat(p.partition_dict[i].names)
                THEN "AssertionError" ELSE "ok",
     warnings |-> {}]
CheckPartitionIntegrity(p) ==
    LET d == p.partition_dict
        bad == {i \in 1..Len(d) : HasRepeat(d[i].names)}
        upto == IF bad = {} THEN Len(d) ELSE CHOOSE i \in bad : \A j \in bad : i <= j
    IN [status |-> IF bad # {} \/ HasRepeat(AllNames(d, Len(d)))
                   THEN "AssertionError" ELSE "ok",
        warnings |-> {d[i].split : i \in {j \in 1..upto : d[j].names = <<>>}}]

\* a symbolic link holds the path it was given
Symlink(target) == [kind |-> "symlink", target |-> target]
IsSymlink(files, p) == p \in DOMAIN files /\ files[p].kind = "symlink"
\* the path open() ends at: a link is followed
Resolve(files, p) == IF IsSymlink(files, p) THEN files[p].target ELSE p
PartitionPath(directory, partition_name) ==
    directory \o "/" \o partition_name \o "_partition.json"

\* Partition.save: the file is written (through a link, when the path is
\* one), then os.symlink fails when default_partition.json exists
PartitionSave(p, directory, partition_name, as_default, files) ==
    LET fs1 == Put(files, Resolve(files, PartitionPath(directory, partition_name)),
                   [kind |-> "json", value |-> p.partition_dict])
    IN IF ~as_default THEN [status |-> "ok", fs |-> fs1]
       ELSE IF PartitionPath(directory, "default") \in DOMAIN fs1
       THEN [status |-> "FileExistsError", fs |-> fs1]
       ELSE [status |-> "ok",
             fs |-> Put(fs1, PartitionPath(directory, "default"),
                        Symlink(PartitionPath(directory, partition_name)))]

(***************************************************************************)
(* The Partition specification: a caller holds a Partition, adds sample     *)
(* names to it and has its integrity checked.                               *)
(***************************************************************************)
SampleNames == {"s1", "s2"}
NameLists == UNION {[1..n -> SampleNames] : n \in 0..MaxNames}
KeyLists == {<<"train", "valid", "test">>, <<"valid", "train">>, <<"train">>}
InitPartition ==
    /\ fs = <<>>
    /\ band = NoneVal
    /\ sample = NoSample
    /\ dataset = NoneVal
    /\ cache = <<>>
    /\ gen = NoneVal
    /\ ret = NoRet
    /\ \E ks \in KeyLists : \E lists \in [1..Len(ks) -> NameLists] :
          partition = PartitionInit(Some([i \in 1..Len(ks) |-> Entry(ks[i], lists[i])])).partition

AddArgs == SplitNames \cup {"val"}

\* partition.add(split_name, sample_name)
Add ==
    /\ \A i \in 1..Len(partition.partition_dict) :
          Len(partition.partition_dict[i].names) <= MaxNames
    /\ \E split_name \in AddArgs, sample_name \in SampleNames :
          LET r == PartitionAdd(partition, split_name, sample_name) IN
          /\ partition' = r.partition
          /\ ret' = [op |-> "add", split_name |-> split_name,
                     sample_name |-> sample_name, status |-> r.status]
    /\ UNCHANGED <<fs, band, sample, dataset, cache, gen>>

\* check_partition_integrity(partition, partition_name)
CheckIntegrity ==
    /\ ret' = [op |-> "check_partition_integrity",
               out |-> CheckPartitionIntegrity(partition)]
    /\ UNCHANGED <<fs, band, sample, partition, dataset, cache, gen>>

NextPartition == Add \/ CheckIntegrity
SpecPartition == InitPartition /\ [][NextPartition]_vars

(***************************************************************************)
(* Dataset.                                                                 *)
(***************************************************************************)
\* a BandInfo built without spatial_resolution
NoResolution == 0
S1_VH == MkInfo("Sentinel1", "VH", <<>>, NoResolution, 0, 0)

\* repr(band_info): every __repr__ but that of SegmentationClasses formats
\* spatial_resolution with ":.1f", which None does not support
ReprError(info) ==
    IF info.cls # "SegmentationClasses" /\ info.spatial_resolution = NoResolution
    THEN "TypeError" ELSE "ok"

\* alt_to_full_names, the inner loop over the first n band_infos for one
\* user band name
RECURSIVE MatchInfos(_, _, _, _)
MatchInfos(alt, user_band_name, bands_info, n) ==
    IF n = 0 THEN [alt |-> alt, matched |-> FALSE]
    ELSE LET prev == MatchInfos(alt, user_band_name, bands_info, n - 1)
             possible_names == PossibleNames(bands_info[n])
         IN IF user_band_name \in possible_names
            THEN [alt |-> [k \in (DOMAIN prev.alt) \cup possible_names |->
                             IF k \in possible_names THEN bands_info[n].name
                             ELSE prev.alt[k]],
                  matched |-> TRUE]
            ELSE prev

\* alt_to_full_names, the outer loop over the first n user band names: the
\* first name that matches nothing raises, and the message of the error
\* holds the repr of bands_info
RECURSIVE AltToFullNames(_, _, _)
AltToFullNames(band_names, bands_info, n) ==
    IF n = 0 THEN [status |-> "ok", alt |-> <<>>]
    ELSE LET prev == AltToFullNames(band_names, bands_info, n - 1) IN
         IF prev.status # "ok" THEN prev
         ELSE LET r == MatchInfos(prev.alt, band_names[n], bands_info, Len(bands_info)) IN
              IF r.matched THEN [status |-> "ok", alt |-> r.alt]
              ELSE IF \E i \in 1..Len(bands_info) : ReprError(bands_info[i]) # "ok"
              THEN [status |-> "TypeError", alt |-> prev.alt]
              ELSE [status |-> "UnknownBandError", alt |-> prev.alt]

\* load_partition behind lru_cache(maxsize=CacheSize): the cache is shared by
\* all Dataset objects and keyed by the object and the name; a call that
\* raises caches nothing
CacheSize == 3
PartitionNames == {"default", "a", "b"}
CacheHit(c, id, partition_name) ==
    {i \in 1..Len(c) : c[i].id = id /\ c[i].name = partition_name}
Without(c, i) == [k \in 1..(Len(c) - 1) |-> IF k < i THEN c[k] ELSE c[k + 1]]
LoadPartition(ds, partition_name, files, c) ==
    IF CacheHit(c, ds.id, partition_name) # {}
    THEN LET i == CHOOSE i \in CacheHit(c, ds.id, partition_name) : TRUE IN
         [status |-> "ok", partition |-> c[i].partition,
          cache |-> Append(Without(c, i), c[i])]
    ELSE
    LET target == Resolve(files, ds.partition_path_dict[partition_name]) IN
    IF target \notin DOMAIN files
    THEN [status |-> "FileNotFoundError", cache |-> c]
    ELSE LET r == PartitionInit(Some(files[target].value)) IN
         IF r.status # "ok" THEN [status |-> r.status, cache |-> c]
         ELSE LET c1 == Append(c, [id |-> ds.id, name |-> partition_name,
                                   partition |-> r.partition])
              IN [status |-> "ok", partition |-> r.partition,
                  cache |-> IF Len(c1) > CacheSize THEN Tail(c1) ELSE c1]

\* Dataset.list_splits
ListSplits(ds) == Keys(ds.active_partition.partition_dict)

\* Dataset.set_partition: the name is assigned before the partition is
\* loaded
SetPartitionAnyName(ds, partition_name, files, c) ==
    IF partition_name \notin DOMAIN ds.partition_path_dict
    THEN [status |-> "ok", cache |-> c,
          dataset |-> [ds EXCEPT !.active_partition_name = partition_name]]
    ELSE LET l == LoadPartition(ds, partition_name, files, c) IN
         [status |-> l.status, cache |-> l.cache,
          dataset |-> [ds EXCEPT !.active_partition_name = partition_name,
                                 !.active_partition = l.partition]]
SetPartition(ds, partition_name, files, c) ==
    IF partition_name \notin DOMAIN ds.partition_path_dict
    THEN [status |-> "UnknownPartitionError", dataset |-> ds, cache |-> c]
    ELSE LET ds1 == [ds EXCEPT !.active_partition_name = partition_name]
             l == LoadPartition(ds1, partition_name, files, c)
         IN IF l.status # "ok"
            THEN [status |-> l.status, dataset |-> ds1, cache |-> l.cache]
            ELSE [status |-> "ok", cache |-> l.cache,
                  dataset |-> [ds1 EXCEPT !.active_partition = l.partition]]

\* Dataset.set_split
SetSplit(ds, split) ==
    IF split # NoArg /\ split[1] \notin RangeSet(ListSplits(ds))
    THEN [status |-> "AssertionError", dataset |-> ds]
    ELSE [status |-> "ok", dataset |-> [ds EXCEPT !.split = split]]

Formats == {"hdf5", "tif"}

\* Dataset.__init__ and _load_partitions
DatasetInit(id, dataset_dir, band_names, split, partition_name, format, files, c) ==
    LET found == {n \in PartitionNames : PartitionPath(dataset_dir, n) \in DOMAIN files}
        ds0 == [id |-> id, dataset_dir |-> dataset_dir, split |-> split,
                format |-> format,
                partition_path_dict |-> [n \in found |-> PartitionPath(dataset_dir, n)]]
    IN IF partition_name \notin found
       THEN [status |-> "UnknownPartitionError", cache |-> c]
       ELSE
       LET l == LoadPartition(ds0, partition_name, files, c) IN
       IF l.status # "ok" THEN [status |-> l.status, cache |-> l.cache]
       ELSE IF split # NoArg /\ ~HasKey(l.partition.partition_dict, split[1])
       THEN [status |-> "AssertionError", cache |-> l.cache]
       ELSE IF format \notin Formats
       THEN [status |-> "AssertionError", cache |-> l.cache]
       ELSE IF (dataset_dir \o "/task_specs.pkl") \notin DOMAIN files
       THEN [status |-> "FileNotFoundError", cache |-> l.cache]
       ELSE
       LET task_specs == files[dataset_dir \o "/task_specs.pkl"].value
           a == AltToFullNames(band_names, task_specs.bands_info, Len(band_names))
       IN IF a.status # "ok" THEN [status |-> a.status, cache |-> l.cache]
          ELSE [status |-> "ok", cache |-> l.cache,
                dataset |->
                   [id |-> id, dataset_dir |-> dataset_dir, split |-> split,
                    format |-> format,
                    partition_path_dict |-> ds0.partition_path_dict,
                    active_partition_name |-> partition_name,
                    active_partition |-> l.partition,
                    sample_name_list |->
                       AllNames(l.partition.partition_dict,
                                Len(l.partition.partition_dict)),
                    task_specs |-> task_specs,
                    alt_band_names |-> a.alt,
                    band_names |-> [i \in 1..Len(band_names) |-> a.alt[band_names[i]]]]]

\* the list __len__ and __getitem__ work on
ActiveNames(ds) ==
    IF ds.split = NoArg THEN [status |-> "ok", names |-> ds.sample_name_list]
    ELSE IF ~HasKey(ds.active_partition.partition_dict, ds.split[1])
    THEN [status |-> "KeyError"]
    ELSE [status |-> "ok", names |-> Get(ds.active_partition.partition_dict, ds.split[1])]

\* Dataset.__len__
DatasetLen(ds) ==
    IF ActiveNames(ds).status # "ok" THEN [status |-> ActiveNames(ds).status]
    ELSE [status |-> "ok", len |-> Len(ActiveNames(ds).names)]

\* Dataset.__getitem__ with an index idx >= 0 and no transform
GetItem(ds, idx, files) ==
    IF ActiveNames(ds).status # "ok" THEN [status |-> ActiveNames(ds).status]
    ELSE IF idx >= Len(ActiveNames(ds).names) THEN [status |-> "IndexError"]
    ELSE LET sample_name == ActiveNames(ds).names[idx + 1]
             path == ds.dataset_dir \o "/" \o sample_name
                        \o (IF ds.format = "hdf5" THEN ".hdf5" ELSE "")
             l == LoadSample(path, sample_name, Some(ds.band_names), ds.format, files)
         IN IF l.status # "ok" THEN [status |-> l.status, sample_name |-> sample_name]
            ELSE [status |-> "ok", sample_name |-> sample_name, sample |-> l.sample]

(***************************************************************************)
(* A dataset directory: three samples written in both formats, the          *)
(* partitions a and b, default_partition.json linked to a, and the task     *)
(* specifications.                                                          *)
(***************************************************************************)
DataRoot == "/data/ds"
FixtureSample(name) ==
    MkSample(<<MkBand(MkData(<<1, 1>>, <<IntV(1)>>), S2_B2, 10, NoDate, TRUE),
               MkBand(MkData(<<1, 1>>, <<IntV(2)>>), S2_B9, 60, NoDate, TRUE)>>,
             PlainLabel("int", 7), name)
FixtureNames == <<"s1", "s2", "s3">>
RECURSIVE SampleFiles(_)
SampleFiles(n) ==
    IF n = 0 THEN <<>>
    ELSE WriteSampleHdf5(FixtureSample(FixtureNames[n]), DataRoot,
            WriteSampleTif(FixtureSample(FixtureNames[n]), DataRoot,
                           SampleFiles(n - 1)).fs).fs
PartitionA ==
    [partition_dict |->
        <<Entry("train", <<"s1", "s2">>), Entry("valid", <<"s3">>), Entry("test", <<>>)>>]
PartitionB == [partition_dict |-> <<Entry("train", <<"s3">>)>>]
TaskSpecs(bands_info) == [kind |-> "pkl", value |-> [bands_info |-> bands_info]]
BareFiles(bands_info) ==
    Put(SampleFiles(Len(FixtureNames)), DataRoot \o "/task_specs.pkl", TaskSpecs(bands_info))
DatasetFiles(bands_info) ==
    PartitionSave(PartitionB, DataRoot, "b", FALSE,
        PartitionSave(PartitionA, DataRoot, "a", TRUE, BareFiles(bands_info)).fs).fs

(***************************************************************************)
(* The Dataset specification: a Dataset is opened on the directory, then    *)
(* its partition and its split are switched and it is measured and indexed. *)
(***************************************************************************)
SplitArgs == {NoArg, Some("train"), Some("valid"), Some("test")}
InitDataset ==
    /\ fs = DatasetFiles(<<S2_B2, S2_B9>>)
    /\ band = NoneVal
    /\ sample = NoSample
    /\ partition = NoneVal
    /\ gen = NoneVal
    /\ ret = NoRet
    /\ \E split \in SplitArgs, partition_name \in PartitionNames :
          LET r == DatasetInit(1, DataRoot, <<"B2">>, split, partition_name, "hdf5",
                               fs, <<>>)
          IN /\ r.status = "ok"
             /\ dataset = r.dataset
             /\ cache = r.cache

\* dataset.set_partition(partition_name)
DoSetPartition ==
    \E partition_name \in PartitionNames \cup {"c"} :
       LET r == SetPartition(dataset, partition_name, fs, cache) IN
       /\ dataset' = r.dataset
       /\ cache' = r.cache
       /\ ret' = [op |-> "set_partition", partition_name |-> partition_name,
                  status |-> r.status]
       /\ UNCHANGED <<fs, band, sample, partition, gen>>

\* dataset.set_split(split)
DoSetSplit ==
    \E split \in SplitArgs :
       LET r == SetSplit(dataset, split) IN
       /\ dataset' = r.dataset
       /\ ret' = [op |-> "set_split", split |-> split, status |-> r.status]
       /\ UNCHANGED <<fs, band, sample, partition, cache, gen>>

\* len(dataset)
DoLen ==
    /\ ret' = [op |-> "len", out |-> DatasetLen(dataset)]
    /\ UNCHANGED <<fs, band, sample, partition, dataset, cache, gen>>

\* dataset[idx]
DoGetItem ==
    \E idx \in 0..(Len(FixtureNames) - 1) :
       /\ ret' = [op |-> "getitem", idx |-> idx, out |-> GetItem(dataset, idx, fs)]
       /\ UNCHANGED <<fs, band, sample, partition, dataset, cache, gen>>

NextDataset == DoSetPartition \/ DoSetSplit \/ DoLen \/ DoGetItem
SpecDataset == InitDataset /\ [][NextDataset]_vars

(***************************************************************************)
(* The constructor specification: a Dataset is constructed on the directory *)
(* with varying arguments, again after a constructor that raised (which     *)
(* leaves no object behind), and once constructed is measured and indexed.  *)
(***************************************************************************)
\* a new object is none of the objects still referenced
FreshId(ds, c) ==
    LET used == {c[i].id : i \in 1..Len(c)} \cup (IF ds = NoneVal THEN {} ELSE {ds.id})
    IN CHOOSE n \in 1..(Cardinality(used) + 1) : n \notin used

BandsInfoArgs == {<<S2_B2, S2_B9>>, <<S1_VH, S2_B2>>}
BandNameArgs == {<<>>, <<"B2">>, <<"blue", "B9">>, <<"nope">>, <<"B2", "nope">>}
OpenSplitArgs == {NoArg, Some("train"), Some("dev")}
OpenPartitionArgs == {"default", "b", "zzz"}
FormatArgs == {"hdf5", "tif", "zarr"}

InitOpen ==
    /\ \E bands_info \in BandsInfoArgs : fs = DatasetFiles(bands_info)
    /\ band = NoneVal
    /\ sample = NoSample
    /\ partition = NoneVal
    /\ dataset = NoneVal
    /\ cache = <<>>
    /\ gen = NoneVal
    /\ ret = NoRet

\* dataset = Dataset(DataRoot, band_names, split, partition_name, format=format)
Open ==
    /\ dataset = NoneVal
    /\ \E band_names \in BandNameArgs, split \in OpenSplitArgs,
       partition_name \in OpenPartitionArgs, format \in FormatArgs :
       LET r == DatasetInit(FreshId(dataset, cache), DataRoot, band_names, split,
                            partition_name, format, fs, cache)
       IN /\ dataset' = IF r.status = "ok" THEN r.dataset ELSE NoneVal
          /\ cache' = r.cache
          /\ ret' = [op |-> "open", band_names |-> band_names, split |-> split,
                     partition_name |-> partition_name, format |-> format,
                     status |-> r.status]
          /\ UNCHANGED <<fs, band, sample, partition, gen>>

Opened == dataset # NoneVal
NextOpen == Open \/ (Opened /\ DoLen) \/ (Opened /\ DoGetItem)
SpecOpen == InitOpen /\ [][NextOpen]_vars

(***************************************************************************)
(* iter_dataset.  The object it returns knows its length from the call; the *)
(* generator inside runs no code before the first next(), which draws the   *)
(* indexes, and loads one sample for every next().                          *)
(***************************************************************************)
MaxCount == 2
Min(a, b) == IF a <= b THEN a ELSE b

\* Dataset.iter_dataset: a GeneratorWithLength around a generator that has
\* not started.  The fields split and disturbed are not of the program: they
\* keep the split at the call and whether the iteration advanced under
\* another one.
IterDatasetNoMin(ds, max_count) ==
    LET n == DatasetLen(ds) IN
    IF n.status # "ok" THEN [status |-> n.status]
    ELSE [status |-> "ok",
          gen |-> [length |-> IF max_count = NoArg THEN n.len ELSE max_count[1],
                   state |-> "created", indexes |-> <<>>, yielded |-> <<>>,
                   split |-> ds.split, disturbed |-> FALSE]]
IterDataset(ds, max_count) ==
    LET n == DatasetLen(ds) IN
    IF n.status # "ok" THEN [status |-> n.status]
    ELSE [status |-> "ok",
          gen |-> [length |-> IF max_count = NoArg THEN n.len
                              ELSE Min(n.len, max_count[1]),
                   state |-> "created", indexes |-> <<>>, yielded |-> <<>>,
                   split |-> ds.split, disturbed |-> FALSE]]

\* np.random.choice(n, size=k, replace=False): any k distinct indexes below n
Choices(n, k) ==
    {c \in [1..k -> 0..(n - 1)] : \A i, j \in 1..k : c[i] = c[j] => i = j}

\* the body of the for loop of _iter_dataset: the next index is taken and its
\* sample loaded; an exception ends the generator
Yield(g, ds, indexes, files) ==
    IF indexes = <<>>
    THEN [status |-> "StopIteration", gen |-> [g EXCEPT !.state = "done", !.indexes = <<>>]]
    ELSE LET item == GetItem(ds, Head(indexes), files) IN
         IF item.status # "ok"
         THEN [status |-> item.status,
               gen |-> [g EXCEPT !.state = "failed", !.indexes = Tail(indexes)]]
         ELSE [status |-> "ok",
               gen |-> [g EXCEPT !.state = "running", !.indexes = Tail(indexes),
                                 !.yielded = Append(@, [idx |-> Head(indexes),
                                                        sample |-> item.sample])]]

\* the outcomes of next() on the generator
GeneratorNext(g, ds, files) ==
    IF g.state \in {"done", "failed"} THEN {[status |-> "StopIteration", gen |-> g]}
    ELSE IF g.state = "running" THEN {Yield(g, ds, g.indexes, files)}
    ELSE LET n == DatasetLen(ds) IN
         IF n.status # "ok"
         THEN {[status |-> n.status, gen |-> [g EXCEPT !.state = "failed"]]}
         ELSE IF n.len < g.length
         THEN {[status |-> "ValueError", gen |-> [g EXCEPT !.state = "failed"]]}
         ELSE {Yield(g, ds, indexes, files) : indexes \in Choices(n.len, g.length)}

\* g = dataset.iter_dataset(max_count), once the previous iteration is over
DoIterDataset ==
    /\ IF gen = NoneVal THEN TRUE ELSE gen.state \in {"done", "failed"}
    /\ \E max_count \in {NoArg} \cup {Some(k) : k \in 0..MaxCount} :
          LET r == IterDataset(dataset, max_count) IN
          /\ gen' = IF r.status = "ok" THEN r.gen ELSE gen
          /\ ret' = [op |-> "iter_dataset", max_count |-> max_count, status |-> r.status]
    /\ UNCHANGED <<fs, band, sample, partition, dataset, cache>>

\* next(iter(g))
GenNext ==
    /\ gen # NoneVal
    /\ \E r \in GeneratorNext(gen, dataset, fs) :
          /\ gen' = [r.gen EXCEPT !.disturbed =
                        @ \/ (gen.state \in {"created", "running"}
                                 /\ dataset.split # gen.split)]
          /\ ret' = [op |-> "next", status |-> r.status]
    /\ UNCHANGED <<fs, band, sample, partition, dataset, cache>>

NextIter == DoIterDataset \/ GenNext \/ DoSetSplit
\* whoever iterates keeps asking for the next sample
SpecIter == InitDataset /\ [][NextIter]_vars /\ WF_vars(GenNext)

(***************************************************************************)
(* Whole passes over the object iter_dataset returns.  __iter__ hands out   *)
(* the one generator the object was built around, so a for loop over the   *)
(* object goes on from wherever that generator is.                         *)
(***************************************************************************)
\* for s in g: ... to the end of the loop: next() on iter(g) until it raises;
\* count is the number of samples the loop body saw
RECURSIVE Drain(_, _, _, _)
Drain(g, ds, files, count) ==
    UNION {IF r.status = "ok" THEN Drain(r.gen, ds, files, count + 1)
           ELSE {[status |-> IF r.status = "StopIteration" THEN "ok" ELSE r.status,
                  gen |-> r.gen, count |-> count]}
           : r \in GeneratorNext(g, ds, files)}
GeneratorWithLengthIter(g, ds, files) == Drain(g, ds, files, 0)

\* n = 0; for s in g: n += 1, g being the object of the last iter_dataset;
\* before tells whether that object had been iterated already
DoIterate ==
    /\ gen # NoneVal
    /\ \E r \in GeneratorWithLengthIter(gen, dataset, fs) :
          /\ gen' = [r.gen EXCEPT !.disturbed =
                        @ \/ (gen.state \in {"created", "running"}
                                 /\ dataset.split # gen.split)]
          /\ ret' = [op |-> "for", status |-> r.status, count |-> r.count,
                     before |-> gen.state]
    /\ UNCHANGED <<fs, band, sample, partition, dataset, cache>>

NextPass == DoIterDataset \/ DoIterate \/ DoSetSplit
SpecPass == InitDataset /\ [][NextPass]_vars

(***************************************************************************)
(* The save specification: partitions are saved into a directory that holds *)
(* the samples and the task specifications but no partition yet, and a      *)
(* Dataset is opened on it with the default partition name.  The variable   *)
(* partition holds the Partition of the latest save(..., as_default=True).  *)
(***************************************************************************)
SavedPartitions == {PartitionA, PartitionB}
SaveNames == {"a", "b"}

InitSave ==
    /\ fs = BareFiles(<<S2_B2, S2_B9>>)
    /\ band = NoneVal
    /\ sample = NoSample
    /\ partition = NoneVal
    /\ dataset = NoneVal
    /\ cache = <<>>
    /\ gen = NoneVal
    /\ ret = NoRet

\* p.save(DataRoot, partition_name, as_default)
Save ==
    \E p \in SavedPartitions, partition_name \in SaveNames, as_default \in BOOLEAN :
       LET r == PartitionSave(p, DataRoot, partition_name, as_default, fs) IN
       /\ fs' = r.fs
       /\ partition' = IF as_default THEN p ELSE partition
       /\ ret' = [op |-> "save", partition_name |-> partition_name,
                  as_default |-> as_default, status |-> r.status]
       /\ UNCHANGED <<band, sample, dataset, cache, gen>>

\* dataset = Dataset(DataRoot, ["B2"])
OpenDefault ==
    /\ dataset = NoneVal
    /\ LET r == DatasetInit(FreshId(dataset, cache), DataRoot, <<"B2">>, NoArg,
                            "default", "hdf5", fs, cache)
       IN /\ dataset' = IF r.status = "ok" THEN r.dataset ELSE NoneVal
          /\ cache' = r.cache
          /\ ret' = [op |-> "open", status |-> r.status]
    /\ UNCHANGED <<fs, band, sample, partition, gen>>

NextSave == Save \/ OpenDefault
SpecSave == InitSave /\ [][NextSave]_vars

(***************************************************************************)
(* The cache specification: two Dataset objects are open on one directory,  *)
(* each loads partitions by name, and partition files are rewritten in      *)
(* between.  The variable dataset holds both objects; the variable          *)
(* partition holds, for every object and name, the Partition the last       *)
(* load_partition of that name on that object returned and the other names  *)
(* the object has loaded since.                                             *)
(***************************************************************************)
PartitionFiles ==
    PartitionSave(PartitionB, DataRoot, "b", FALSE,
        PartitionSave(PartitionA, DataRoot, "a", TRUE,
            Put(<<>>, DataRoot \o "/task_specs.pkl", TaskSpecs(<<S2_B2, S2_B9>>))).fs).fs
Instances == 1..2
NoLoad == [last |-> NoneVal, since |-> {}]
Loaded(h, id, name, p) ==
    [k \in DOMAIN h |->
        IF k = <<id, name>> THEN [last |-> p, since |-> {}]
        ELSE IF k[1] = id THEN [h[k] EXCEPT !.since = @ \cup {name}]
        ELSE h[k]]

InitCache ==
    /\ fs = PartitionFiles
    /\ band = NoneVal
    /\ sample = NoSample
    /\ gen = NoneVal
    /\ ret = NoRet
    /\ LET d1 == DatasetInit(1, DataRoot, <<"B2">>, NoArg, "default", "hdf5", fs, <<>>)
           d2 == DatasetInit(2, DataRoot, <<"B2">>, NoArg, "default", "hdf5", fs, d1.cache)
       IN /\ dataset = <<d1.dataset, d2.dataset>>
          /\ cache = d2.cache
          /\ partition = Loaded(Loaded([k \in Instances \X PartitionNames |-> NoLoad],
                                       1, "default", d1.dataset.active_partition),
                                2, "default", d2.dataset.active_partition)

\* dataset[i].load_partition(partition_name)
CacheLoad ==
    \E i \in Instances, partition_name \in PartitionNames :
       LET r == LoadPartition(dataset[i], partition_name, fs, cache) IN
       /\ r.status = "ok"
       /\ cache' = r.cache
       /\ partition' = Loaded(partition, i, partition_name, r.partition)
       /\ ret' = [op |-> "load_partition", id |-> i, partition_name |-> partition_name,
                  partition |-> r.partition]
       /\ UNCHANGED <<fs, band, sample, dataset, gen>>

\* p.save(DataRoot, "a"): the file of the partitions a and default is rewritten
Rewrite ==
    \E p \in SavedPartitions, partition_name \in {"a"} :
       /\ fs' = PartitionSave(p, DataRoot, partition_name, FALSE, fs).fs
       /\ ret' = [op |-> "save", partition_name |-> partition_name,
                  as_default |-> FALSE, status |-> "ok"]
       /\ UNCHANGED <<band, sample, partition, dataset, cache, gen>>

NextCache == CacheLoad \/ Rewrite
SpecCache == InitCache /\ [][NextCache]_vars

(***************************************************************************)
(* alt_to_full_names on its own: the object holds the task specifications   *)
(* (dataset.task_specs.bands_info) and is asked for the map of a list of    *)
(* band names.                                                              *)
(***************************************************************************)
SeqsUpTo(S, n) == UNION {[1..k -> S] : k \in 0..n}

InitAlt ==
    /\ fs = <<>>
    /\ band = NoneVal
    /\ sample = NoSample
    /\ partition = NoneVal
    /\ cache = <<>>
    /\ gen = NoneVal
    /\ ret = NoRet
    /\ \E bands_info \in SeqsUpTo({S2_B2, S2_B9, L8_B9, S1_VH}, MaxBands) :
          dataset = [task_specs |-> [bands_info |-> bands_info]]

\* dataset.alt_to_full_names(band_names)
AltNames ==
    /\ \E band_names \in SeqsUpTo({"B2", "blue", "9", "Cirrus", "nope"}, MaxNames) :
          ret' = [op |-> "alt_to_full_names", band_names |-> band_names,
                  out |-> AltToFullNames(band_names, dataset.task_specs.bands_info,
                                         Len(band_names))]
    /\ UNCHANGED <<fs, band, sample, partition, dataset, cache, gen>>

NextAlt == AltNames
SpecAlt == InitAlt /\ [][NextAlt]_vars

(***************************************************************************)
(* check_dataset_integrity(dataset, samples=samples, assert_dense).         *)
(***************************************************************************)
\* the loop over the partitions, in the order the names have in
\* _partition_path_dict: each is loaded and checked
RECURSIVE CheckPartitions(_, _, _, _, _)
CheckPartitions(ds, names, n, files, c) ==
    IF n = 0 THEN [status |-> "ok", cache |-> c]
    ELSE LET prev == CheckPartitions(ds, names, n - 1, files, c) IN
         IF prev.status # "ok" THEN prev
         ELSE LET l == LoadPartition(ds, names[n], files, prev.cache) IN
              IF l.status # "ok" THEN [status |-> l.status, cache |-> l.cache]
              ELSE [status |-> CheckPartitionIntegrity(l.partition).status,
                    cache |-> l.cache]

\* SegmentationClasses.assert_valid(value); the field n_bands of a
\* SegmentationClasses holds its n_classes
LabelAssertValid(label_type, value) ==
    /\ IsBand(value)
    /\ BandInfoEq(value.band_info, label_type)
    /\ \A k \in 1..Len(value.data.px) :
          ~LtInt(value.data.px[k], 0) /\ LtInt(value.data.px[k], label_type.n_bands)

\* band.band_info.assert_valid(band)
BandAssertValid(b) ==
    IF IsLabelType(b.band_info) THEN LabelAssertValid(b.band_info, b)
    ELSE BandInfoEq(b.band_info, b.band_info)

\* the body of the loop over the samples: sample.band_array is an array, so
\* "sample.band_array is not None" is True whatever its cells hold
CheckSample(task_specs, s, assert_dense) ==
    IF Len(task_specs.bands_info) # Len(s.band_info_list) THEN "AssertionError"
    ELSE IF \E i \in 1..Len(s.band_info_list) :
               ~BandInfoEq(task_specs.bands_info[i], s.band_info_list[i])
    THEN "AssertionError"
    ELSE IF \E i \in 1..Len(s.bands) : ~BandAssertValid(s.bands[i]) THEN "AssertionError"
    ELSE IF task_specs.patch_size #
               <<Max({s.bands[i].data.shape[1] : i \in 1..Len(s.bands)}),
                 Max({s.bands[i].data.shape[2] : i \in 1..Len(s.bands)})>>
    THEN "AssertionError"
    ELSE IF ~IsLabelType(task_specs.label_type) THEN "AssertionError"
    ELSE IF ~LabelAssertValid(task_specs.label_type, s.label) THEN "AssertionError"
    ELSE IF assert_dense /\ FALSE THEN "AssertionError"
    ELSE "ok"

CheckDatasetIntegrity(ds, names, samples, assert_dense, files, c) ==
    LET p == CheckPartitions(ds, names, Len(names), files, c) IN
    IF p.status # "ok" THEN p
    ELSE [status |-> IF \E i \in 1..Len(samples) :
                           CheckSample(ds.task_specs, samples[i], assert_dense) # "ok"
                     THEN "AssertionError" ELSE "ok",
          cache |-> p.cache]

(***************************************************************************)
(* The integrity specification: a Dataset is open on the directory, a       *)
(* Sample is constructed from a list of bands and, unless its constructor   *)
(* raised, handed to check_dataset_integrity.                               *)
(***************************************************************************)
MaxSampleBands == 3
SegClasses == MkInfo("SegmentationClasses", "label", <<>>, 10, 0, 2)
IntegrityFiles ==
    Put(PartitionFiles, DataRoot \o "/task_specs.pkl",
        [kind |-> "pkl",
         value |-> [bands_info |-> <<S2_B2, S2_B9>>, patch_size |-> <<2, 2>>,
                    label_type |-> SegClasses]])
Patch == MkData(<<2, 2>>, [k \in 1..4 |-> IntV(4)])
BuildDates == {NoDate, Date(1), Date(2)}
BuildBands ==
    {MkBand(d, S2_B2, 10, date, TRUE) :
        d \in {MkData(<<1, 1>>, <<IntV(1)>>), Patch}, date \in BuildDates}
    \cup {MkBand(Patch, info, 10, date, TRUE) : info \in {S2_B9, L8_B2}, date \in BuildDates}
BuildLabels == {PlainLabel("int", 7), MkBand(MkData(<<1, 1>>, <<IntV(1)>>), SegClasses, 10, NoDate, TRUE)}

InitIntegrity ==
    /\ fs = IntegrityFiles
    /\ band = NoneVal
    /\ sample = NoSample
    /\ partition = NoneVal
    /\ gen = NoneVal
    /\ ret = NoRet
    /\ LET d == DatasetInit(1, DataRoot, <<"B2">>, NoArg, "default", "hdf5", fs, <<>>)
       IN dataset = d.dataset /\ cache = d.cache

\* sample = Sample(bands, label, "s1")
Construct ==
    /\ ret = NoRet
    /\ \E bands \in UNION {[1..n -> BuildBands] : n \in 1..MaxSampleBands},
          label \in BuildLabels :
          /\ sample' = IF SampleInitError(bands) = "ok"
                       THEN MkSample(bands, label, "s1") ELSE NoSample
          /\ ret' = [op |-> "Sample", bands |-> bands, status |-> SampleInitError(bands)]
    /\ UNCHANGED <<fs, band, partition, dataset, cache, gen>>

\* check_dataset_integrity(dataset, samples=[sample], assert_dense=assert_dense)
CheckDataset ==
    /\ ret.op = "Sample"
    /\ sample # NoSample
    /\ \E assert_dense \in BOOLEAN,
          names \in {q \in [1..Cardinality(DOMAIN dataset.partition_path_dict)
                               -> DOMAIN dataset.partition_path_dict] :
                        \A i, j \in DOMAIN q : q[i] = q[j] => i = j} :
          LET r == CheckDatasetIntegrity(dataset, names, <<sample>>, assert_dense,
                                         fs, cache)
          IN /\ cache' = r.cache
             /\ ret' = [op |-> "check_dataset_integrity", assert_dense |-> assert_dense,
                        status |-> r.status]
    /\ UNCHANGED <<fs, band, sample, partition, dataset, gen>>

NextIntegrity == Construct \/ CheckDataset
SpecIntegrity == InitIntegrity /\ [][NextIntegrity]_vars

(***************************************************************************)
(* Claims about BandInfo and the single Band.                              *)
(***************************************************************************)
\* the values of an array rounded to the nearest integer, ties to even
RoundedPx(data) == [i \in 1..Len(data.px) |-> IntV(NpRound(data.px[i]))]

InInt16Range(b) ==
    \A i \in 1..Len(b.data.px) :
        ~LtInt(b.data.px[i], Int16Min) /\ ~GtInt(b.data.px[i], Int16Max)
HasRoundToZero(b) ==
    \E i \in 1..Len(b.data.px) :
        GtMicro(b.data.px[i]) /\ LeHalf(b.data.px[i])

\* the last call loaded, from the path it names, the file that writing the
\* held band produces
LoadedOwnFile ==
    /\ ret.op = "load_band_tif"
    /\ WriteToGeotiff(band, BandDir, <<>>).status = "ok"
    /\ ret.path = TifPath(BandDir, band)
    /\ fs[ret.path] = WriteToGeotiff(band, BandDir, <<>>).fs[ret.path]

SameMeta(loaded, b) ==
    /\ loaded.date = b.date
    /\ loaded.spatial_resolution = b.spatial_resolution
    /\ loaded.band_info.name = b.band_info.name

\* C3, as stated: for any Band whose values lie in [-32768, 32767], none of
\* them in (1e-6, 0.5], load_band_tif(write_to_geotiff(band)) has the same
\* pixel values, array shape, date, spatial_resolution and band_info name.
C3_AsStated ==
    (LoadedOwnFile /\ InInt16Range(band) /\ ~HasRoundToZero(band))
        => /\ ret.status = "ok"
           /\ ret.band.data = band.data
           /\ SameMeta(ret.band, band)

\* C3, amended: for a Band with convert_to_int16 set whose values lie in
\* [-32768, 32767], none of them in (1e-6, 0.5], and whose data is 2D for an
\* ordinary band or 3D for a MultiBand, load_band_tif(write_to_geotiff(band))
\* has the pixel values rounded to the nearest integer (ties to even), the
\* same array shape, date, spatial_resolution and band_info name.
KeepsShape(b) ==
    IF IsMultiBand(b.band_info) THEN Len(b.data.shape) = 3
    ELSE Len(b.data.shape) = 2
C3_RoundTrip ==
    (/\ LoadedOwnFile /\ band.convert_to_int16 /\ KeepsShape(band)
     /\ InInt16Range(band) /\ ~HasRoundToZero(band))
        => /\ ret.status = "ok"
           /\ ret.band.data.shape = band.data.shape
           /\ ret.band.data.px = RoundedPx(band.data)
           /\ SameMeta(ret.band, band)
C3_Witness ==
    /\ LoadedOwnFile /\ band.convert_to_int16 /\ KeepsShape(band)
    /\ band.data.px = <<V(0, 600000), IntV(1)>>
    /\ ret.status = "ok"
    /\ ret.band.data.px = <<IntV(1), IntV(1)>>

\* C4, as stated: two BandInfo objects of any variants are equal iff their
\* names are equal, and equal objects have equal hashes.
C4_AsStated ==
    ret.op = "eq" =>
        /\ ret.eq <=> (ret.a.name = ret.b.name)
        /\ ret.eq => ret.hash_a = ret.hash_b

\* C4, amended: two BandInfo objects are equal iff they are of the same class
\* and their names are equal, whatever the other fields (wavelength included);
\* equal objects have equal hashes.
C4_EqByClassAndName ==
    ret.op = "eq" =>
        /\ ret.eq <=> (ret.a.cls = ret.b.cls /\ ret.a.name = ret.b.name)
        /\ ret.eq => ret.hash_a = ret.hash_b
C4_Witness ==
    /\ ret.op = "eq" /\ ret.eq
    /\ ret.a.cls = "Sentinel2"
    /\ ret.a.wavelength # ret.b.wavelength
    /\ ret.a.alt_names # ret.b.alt_names

\* C5: write_to_geotiff with convert_to_int16 on a band with a value below
\* -32768 or above 32767 raises RangeError and leaves every file of the
\* directory as it was: none created, none modified.
C5_RangeErrorAborts ==
    [][(BandWrite /\ band.convert_to_int16 /\ ~InInt16Range(band))
          => (ret'.status = "RangeError" /\ fs' = fs)]_vars
C5_Witness ==
    /\ ret.op = "write_to_geotiff" /\ ret.status = "RangeError"
    /\ band.convert_to_int16
    /\ \E i \in 1..Len(band.data.px) : band.data.px[i] = IntV(40000)
    /\ fs = StaleFs(band)

\* C6, as stated: write_to_geotiff with convert_to_int16 on a band with a
\* value in (1e-6, 0.5] raises PrecisionLossError and writes nothing.
C6_AsStated ==
    [][(BandWrite /\ band.convert_to_int16 /\ HasRoundToZero(band))
          => (ret'.status = "PrecisionLossError" /\ fs' = fs)]_vars

\* C6, amended: write_to_geotiff with convert_to_int16 on a band whose values
\* all lie in [-32768, 32767] raises PrecisionLossError and writes nothing if
\* some value lies in (1e-6, 0.5]; otherwise it writes each value rounded to
\* an integer, and what load_band_tif reads back from the file are the
\* rounded values (0.6 as 1).
C6_WriteStep ==
    (BandWrite /\ band.convert_to_int16 /\ InInt16Range(band))
        => IF HasRoundToZero(band)
           THEN ret'.status = "PrecisionLossError" /\ fs' = fs
           ELSE /\ ret'.status = "ok"
                /\ fs'[ret'.path].data.px = RoundedPx(band.data)
C6_ReadBack ==
    (/\ LoadedOwnFile /\ band.convert_to_int16 /\ ret.status = "ok"
     /\ InInt16Range(band) /\ ~HasRoundToZero(band))
        => ret.band.data.px = RoundedPx(band.data)
C6_PrecisionLoss == [][C6_WriteStep]_vars /\ []C6_ReadBack
C6_Witness ==
    /\ ret.op = "write_to_geotiff" /\ ret.status = "PrecisionLossError"
    /\ band.data.px = <<V(0, 300000)>>
    /\ fs = StaleFs(band)

(***************************************************************************)
(* Claims about pack_to_4d.                                                *)
(***************************************************************************)
\* the grid the last call of pack_to_4d selected
Selected == GetBandArray(sample, ret.dates, ret.band_names)
Packed == ret.op = "pack_to_4d" /\ Selected.status = "ok"
EmptyCells == {c \in DOMAIN Selected.grid : Selected.grid[c] = NoneVal}
TargetShape == LargestShape(Selected.grid)
ShapeOf(b) == <<b.data.shape[1], b.data.shape[2]>>

Orderings(n) == {p \in [1..n -> 1..n] : \A i, j \in 1..n : p[i] = p[j] => i = j}
IsAscending(dates) == \A i, j \in 1..Len(dates) : i < j => DateLt(dates[i], dates[j])
IsNameSorted(names) ==
    \A i, j \in 1..Len(names) : i < j => NameRank(names[i]) <= NameRank(names[j])

\* C8, as stated: pack_to_4d() with no arguments returns the dates ascending
\* and the band names in canonical-name order, and the same dates, names and
\* array for the same bands in any list order.
C8_AsStated ==
    (/\ Packed /\ ret.dates = NoArg /\ ret.band_names = NoArg
     /\ ~ret.resample /\ ret.fill_value = NoArg /\ ret.out.status = "ok")
        => /\ IsAscending(ret.out.dates)
           /\ IsNameSorted(ret.out.band_names)
           /\ \A p \in Orderings(Len(sample.bands)) :
                 PackTo4d(MkSample([k \in 1..Len(sample.bands) |-> sample.bands[p[k]]],
                                   sample.label, sample.sample_name),
                          NoArg, NoArg, FALSE, NoArg) = ret.out

\* C9 as stated, for calls in which every selected band has the packed shape
\* (so that no shape error comes first): with fill_value=None pack_to_4d
\* raises MissingBandError when some selected (date, band) cell holds no
\* band, and raises no MissingBandError when every selected cell holds one.
C9_AsStated ==
    (/\ Packed /\ ret.fill_value = NoArg
     /\ \A c \in DOMAIN Selected.grid :
           Selected.grid[c] # NoneVal => ShapeOf(Selected.grid[c]) = TargetShape)
        => IF EmptyCells # {} THEN ret.out.status = "MissingBandError"
           ELSE ret.out.status # "MissingBandError"

\* C10, as stated: with a fill_value (0 included) pack_to_4d succeeds on a
\* Sample that misses a band for one date: the array has the shape
\* [n_dates, H, W, n_channels], the plane of a missing cell is full size and
\* holds fill_value, the plane of a present cell holds its band's data.
C10_AsStated ==
    (/\ Packed /\ ret.fill_value # NoArg /\ EmptyCells # {}
     /\ \A i, j \in 1..Len(sample.band_names) :
           sample.band_names[i] = sample.band_names[j] => i = j
     /\ \A c \in DOMAIN Selected.grid :
           Selected.grid[c] # NoneVal => ShapeOf(Selected.grid[c]) = TargetShape)
        => /\ ret.out.status = "ok"
           /\ ret.out.array.shape =
                 <<Selected.n_rows, TargetShape[1], TargetShape[2], Selected.n_cols>>
           /\ \A c \in DOMAIN Selected.grid :
                 IF Selected.grid[c] = NoneVal
                 THEN /\ Len(ret.out.array.cells[c].px) = TargetShape[1] * TargetShape[2]
                      /\ \A k \in 1..Len(ret.out.array.cells[c].px) :
                            ret.out.array.cells[c].px[k] = IntV(ret.fill_value[1])
                 ELSE ret.out.array.cells[c].px = Selected.grid[c].data.px


Present == {c \in DOMAIN Selected.grid : Selected.grid[c] # NoneVal}
IsMaxOf(m, S) == m \in S /\ \A x \in S : x <= m
\* the height and width zoom factors target / size of a band differ
ZoomFactorsDiffer(b, shape) ==
    shape[1] * b.data.shape[2] # shape[2] * b.data.shape[1]

\* what C11 says of the outcome: the call raises NonUniformZoomError when
\* some selected band has different height and width zoom factors H/h and
\* W/w, with H and W the maximum height and width over the selected bands,
\* and otherwise returns an array of shape [n_dates, H, W, n_bands] in which
\* every band's plane has the shape H x W, a band already of that shape
\* keeping its data
ResampledOutcome ==
    \E H \in {Selected.grid[c].data.shape[1] : c \in Present},
       W \in {Selected.grid[c].data.shape[2] : c \in Present} :
       /\ IsMaxOf(H, {Selected.grid[c].data.shape[1] : c \in Present})
       /\ IsMaxOf(W, {Selected.grid[c].data.shape[2] : c \in Present})
       /\ IF \E c \in Present : ZoomFactorsDiffer(Selected.grid[c], <<H, W>>)
          THEN ret.out.status = "NonUniformZoomError"
          ELSE /\ ret.out.status = "ok"
               /\ ret.out.array.shape = <<Selected.n_rows, H, W, Selected.n_cols>>
               /\ \A c \in Present :
                     /\ ret.out.array.cells[c].shape = <<H, W, 1>>
                     /\ Len(ret.out.array.cells[c].px) = H * W
                     /\ ShapeOf(Selected.grid[c]) = <<H, W>>
                           => ret.out.array.cells[c].px = Selected.grid[c].data.px

\* C11 as stated, for calls with fill_value=None: pack_to_4d(resample=True)
\* upsamples every selected band to the maximum height and width when its
\* zoom factors are equal and raises NonUniformZoomError when they differ.
C11_AsStated ==
    (Packed /\ ret.resample /\ ret.fill_value = NoArg) => ResampledOutcome

\* C11, amended: the same for a selection in which every (date, band) cell
\* holds a band.
C11_Resample ==
    (Packed /\ ret.resample /\ EmptyCells = {}) => ResampledOutcome

\* a smaller band was upsampled
C11_Witness ==
    /\ Packed /\ ret.resample /\ EmptyCells = {}
    /\ ret.out.status = "ok"
    /\ \E c, d \in Present :
          /\ ShapeOf(Selected.grid[c]) = <<1, 1>>
          /\ ShapeOf(Selected.grid[d]) = <<2, 2>>
          /\ ret.out.array.cells[c].shape = <<2, 2, 1>>

\* the band_infos of the sample that carry the name n, as name or as alias
Carriers(n) ==
    {i \in 1..Len(sample.band_info_list) : n \in PossibleNames(sample.band_info_list[i])}
\* selecting the one name n gives what selecting the one name m gives: the
\* same band_info, the same grid and the same packed result
SameSelection(n, m) ==
    /\ GetBandInfo(sample, n) = GetBandInfo(sample, m)
    /\ GetBandArray(sample, ret.dates, Some(<<n>>)).grid
          = GetBandArray(sample, ret.dates, Some(<<m>>)).grid
    /\ PackTo4d(sample, ret.dates, Some(<<n>>), ret.resample, ret.fill_value)
          = PackTo4d(sample, ret.dates, Some(<<m>>), ret.resample, ret.fill_value)
OneNamePacked ==
    /\ ret.op = "pack_to_4d"
    /\ ret.band_names # NoArg
    /\ Len(ret.band_names[1]) = 1
    /\ ret.dates = NoArg \/ Selected.status = "ok"

\* C12 as stated: a name n that is the canonical name or an alias of a band
\* of the sample is accepted and selects the same band_info, grid column,
\* data and expanded names as that band's canonical name.
C12_AsStated ==
    OneNamePacked =>
        \A i \in Carriers(ret.band_names[1][1]) :
           /\ ret.band_names[1][1] \in DOMAIN sample.band_name_map
           /\ SameSelection(ret.band_names[1][1], sample.band_info_list[i].name)

\* C12, amended: a name n carried by a band_info of the sample is accepted
\* and resolves to the last band_info, in the order of the sample's
\* band_info_list, that carries n; when a single band_info carries n and no
\* other band_info has its canonical name, n selects the same band_info, grid
\* column, data and expanded names as that canonical name.
C12_AliasLookup ==
    OneNamePacked =>
        \A i \in Carriers(ret.band_names[1][1]) :
           /\ ret.band_names[1][1] \in DOMAIN sample.band_name_map
           /\ sample.band_name_map[ret.band_names[1][1]] \in Carriers(ret.band_names[1][1])
           /\ \A j \in Carriers(ret.band_names[1][1]) :
                 j <= sample.band_name_map[ret.band_names[1][1]]
           /\ (/\ Carriers(ret.band_names[1][1]) = {i}
               /\ Carriers(sample.band_info_list[i].name) = {i})
                 => /\ GetBandInfo(sample, ret.band_names[1][1]) = sample.band_info_list[i]
                    /\ SameSelection(ret.band_names[1][1], sample.band_info_list[i].name)
                    /\ ret.out.status = "ok"
                          => ret.out.band_names = <<sample.band_info_list[i].name>>

\* the alias "blue" selected the second band_info of the sample
C12_Witness ==
    /\ OneNamePacked
    /\ ret.band_names[1][1] = "blue"
    /\ Len(sample.band_info_list) = 2
    /\ Carriers("blue") = {2}
    /\ ret.out.status = "ok"
    /\ ret.out.band_names = <<"B2">>

(***************************************************************************)
(* Claims about writing and loading a Sample.                              *)
(***************************************************************************)
\* the bands the Sample was constructed with: write_sample_hdf5 appends only
\* label Bands to the list
OwnBands(s) == SelectSeq(s.bands, LAMBDA b : ~IsLabelType(b.band_info))
DistinctPairs(bands) ==
    \A i, j \in 1..Len(bands) :
       (bands[i].date = bands[j].date /\ bands[i].band_info.name = bands[j].band_info.name)
          => i = j
Mappings(bands) ==
    {<<bands[i].date, bands[i].band_info.name, bands[i].data>> : i \in 1..Len(bands)}
IntegralInRange(bands) ==
    \A i \in 1..Len(bands) : \A k \in DOMAIN bands[i].data.px :
       /\ Len(bands[i].data.px[k]) = 2
       /\ bands[i].data.px[k][2] = 0
       /\ ~LtInt(bands[i].data.px[k], Int16Min)
       /\ ~GtInt(bands[i].data.px[k], Int16Max)
SameLogicalSample(a, b) ==
    /\ a.sample_name = b.sample_name
    /\ Mappings(a.bands) = Mappings(b.bands)
    /\ a.label = b.label

\* C1 as stated, for Samples whose pixel values are integers within int16
\* (for which the tif conversion changes no value): after the Sample is
\* written to an empty directory with the tif encoding, load_sample(format
\* tif, all bands) returns a Sample with the same sample_name, the same
\* (date, name) -> pixel-array mappings and the same label.
C1_AsStated ==
    (/\ ret.op = "load" /\ ret.format = "tif" /\ ret.band_names = NoArg
     /\ sample.bands = OwnBands(sample)
     /\ DistinctPairs(sample.bands)
     /\ IntegralInRange(sample.bands)
     /\ fs = WriteSampleTif(sample, DatasetDir, <<>>).fs)
        => /\ ret.out.status = "ok"
           /\ SameLogicalSample(ret.out.sample, sample)

\* C2 as stated, for Samples with integer pixel values within int16 and a
\* plain integer label (which both loaders return unchanged): after the
\* Sample is written to an empty directory with the hdf5 encoding,
\* load_sample(format hdf5, all the Sample's band names) succeeds and returns
\* the same logical Sample as writing and loading it with the tif encoding.
C2_AsStated ==
    (/\ ret.op = "load" /\ ret.format = "hdf5"
     /\ ret.band_names = Some(sample.band_names)
     /\ sample.label = PlainLabel("int", 7)
     /\ DistinctPairs(sample.bands)
     /\ IntegralInRange(sample.bands)
     /\ fs = WriteSampleHdf5(sample, DatasetDir, <<>>).fs)
        => LET tif == LoadSample(SampleDir, SampleName, NoArg, "tif",
                                 WriteSampleTif(sample, DatasetDir, <<>>).fs)
           IN /\ ret.out.status = "ok"
              /\ tif.status = "ok"
              /\ SameLogicalSample(ret.out.sample, tif.sample)

Collides(bands) ==
    \E i, j \in 1..Len(bands) : i # j /\ FileName(bands[i]) = FileName(bands[j])
Unwritable(bands) == {i \in 1..Len(bands) : WriteError(bands[i]) # "ok"}
FirstUnwritable(bands) ==
    CHOOSE i \in Unwritable(bands) : \A j \in Unwritable(bands) : i <= j
TifWritten == ret.op = "write" /\ ret.format = "tif"

\* C7 as stated: whenever two bands of the sample map to the same file name,
\* write_sample_tif fails with DuplicateBandError.
C7_AsStated ==
    (TifWritten /\ Collides(sample.bands)) => ret.status = "DuplicateBandError"

\* C7, amended: whenever two bands of the sample map to the same file name,
\* write_sample_tif fails: with DuplicateBandError when every band passes
\* the checks of write_to_geotiff, and otherwise with the RangeError or
\* PrecisionLossError of the first band that does not.
C7_DuplicateBand ==
    (TifWritten /\ Collides(sample.bands))
        => /\ ret.status # "ok"
           /\ Unwritable(sample.bands) = {} => ret.status = "DuplicateBandError"
           /\ Unwritable(sample.bands) # {}
                 => ret.status = WriteError(sample.bands[FirstUnwritable(sample.bands)])

C7_Witness ==
    /\ TifWritten
    /\ Collides(sample.bands)
    /\ Unwritable(sample.bands) = {}
    /\ sample.bands = OwnBands(sample)
    /\ ret.status = "DuplicateBandError"


(***************************************************************************)
(* Claims about Partition.                                                 *)
(***************************************************************************)
Added == ret'.op = "add" /\ <<partition, ret>>' # <<partition, ret>>

\* C13 as stated: partition.add(split, sample_name) with a split outside
\* train, valid, test raises InvalidSplitError and leaves the partition
\* unchanged; with one of the three it succeeds, appends sample_name to the
\* end of that split's list (a name already there included) and leaves the
\* other lists unchanged.
C13_AsStated ==
    [][Added =>
         IF ret'.split_name \notin SplitNames
         THEN ret'.status = "InvalidSplitError" /\ partition' = partition
         ELSE /\ ret'.status = "ok"
              /\ Keys(partition'.partition_dict) = Keys(partition.partition_dict)
              /\ \A i \in 1..Len(partition.partition_dict) :
                    partition'.partition_dict[i].names =
                       IF partition.partition_dict[i].split = ret'.split_name
                       THEN Append(partition.partition_dict[i].names, ret'.sample_name)
                       ELSE partition.partition_dict[i].names]_vars

Checked == ret.op = "check_partition_integrity"
RepeatedInSplit(d) ==
    \E i \in 1..Len(d) : \E a, b \in 1..Len(d[i].names) :
       a # b /\ d[i].names[a] = d[i].names[b]
InTwoSplits(d) ==
    \E i, j \in 1..Len(d) : i # j /\ RangeSet(d[i].names) \cap RangeSet(d[j].names) # {}
EmptySplits(d) == {d[i].split : i \in {j \in 1..Len(d) : d[j].names = <<>>}}

\* C14: check_partition_integrity fails exactly when a sample name occurs
\* twice in one split or occurs in two splits; when it does not fail, every
\* empty split has produced a warning and nothing else has.
C14_Integrity ==
    Checked =>
       /\ ret.out.status = "AssertionError"
             <=> (RepeatedInSplit(partition.partition_dict)
                     \/ InTwoSplits(partition.partition_dict))
       /\ ret.out.status \in {"ok", "AssertionError"}
       /\ ret.out.status = "ok"
             => ret.out.warnings = EmptySplits(partition.partition_dict)

\* a partition with an empty split passed the check with a warning
C14_Witness ==
    /\ Checked
    /\ ret.out.status = "ok"
    /\ ret.out.warnings = {"valid"}
    /\ Len(partition.partition_dict) = 3


(***************************************************************************)
(* Claims about Dataset.                                                   *)
(***************************************************************************)
SplitIsListed == dataset.split = NoArg \/ dataset.split[1] \in RangeSet(ListSplits(dataset))
\* the sample names the active partition holds for the dataset's split: those
\* of the split, or those of all splits when split is None
ExpectedNames ==
    IF dataset.split = NoArg
    THEN AllNames(dataset.active_partition.partition_dict,
                  Len(dataset.active_partition.partition_dict))
    ELSE Get(dataset.active_partition.partition_dict, dataset.split[1])

\* C15 as stated, for a split that the active partition has: len(dataset) is
\* the number of sample names of the dataset's split in the currently active
\* partition (of all its splits when split is None), and dataset[idx] loads
\* the idx-th of them.
C15_AsStated ==
    SplitIsListed =>
       /\ ret.op = "len"
             => ret.out.status = "ok" /\ ret.out.len = Len(ExpectedNames)
       /\ (ret.op = "getitem" /\ ret.idx < Len(ExpectedNames))
             => /\ ret.out.status = "ok"
                /\ ret.out.sample_name = ExpectedNames[ret.idx + 1]
                /\ ret.out.sample.sample_name = ExpectedNames[ret.idx + 1]
       /\ (ret.op = "getitem" /\ ret.idx >= Len(ExpectedNames))
             => ret.out.status = "IndexError"

\* C19 as stated: the dataset's split is always None or one of list_splits()
\* of the active partition, and len(dataset) never fails for a missing split.
C19_AsStated ==
    /\ SplitIsListed
    /\ ret.op = "len" => ret.out.status = "ok"

\* C20: set_partition(name) with a name for which the directory holds no
\* partition file raises and leaves active_partition_name, active_partition
\* and split as they were.
C20_UnknownPartition ==
    [][(/\ ret'.op = "set_partition"
        /\ PartitionPath(DataRoot, ret'.partition_name) \notin DOMAIN fs)
          => /\ ret'.status = "UnknownPartitionError"
             /\ dataset'.active_partition_name = dataset.active_partition_name
             /\ dataset'.active_partition = dataset.active_partition
             /\ dataset'.split = dataset.split
             /\ dataset' = dataset]_vars

\* set_partition("c") was refused on a dataset whose partition b is active
\* with the split train
C20_Witness ==
    /\ ret.op = "set_partition"
    /\ ret.partition_name = "c"
    /\ ret.status = "UnknownPartitionError"
    /\ dataset.active_partition_name = "b"
    /\ dataset.active_partition = PartitionB
    /\ dataset.split = Some("train")


\* the bands_info of the task specifications of the directory
BandsInfoOnDisk == fs[DataRoot \o "/task_specs.pkl"].value.bands_info
NoMatch(name) == \A i \in 1..Len(BandsInfoOnDisk) : name \notin PossibleNames(BandsInfoOnDisk[i])

\* C16 as stated: constructing a Dataset with an existing partition, a valid
\* split and a valid format fails with UnknownBandError if and only if some
\* requested band name is neither the canonical name nor an alias of any band
\* of the task specification's bands_info.
C16_AsStated ==
    (/\ ret.op = "open"
     /\ PartitionPath(DataRoot, ret.partition_name) \in DOMAIN fs
     /\ ret.split \in {NoArg, Some("train")}
     /\ ret.format \in Formats)
       => (ret.status = "UnknownBandError"
             <=> \E i \in 1..Len(ret.band_names) : NoMatch(ret.band_names[i]))


\* the sample names of the split the dataset had when iter_dataset was called
NamesAtCall == ActiveNames([dataset EXCEPT !.split = gen.split]).names
Iterating == gen # NoneVal /\ gen.state \in {"created", "running"}
Finished == gen # NoneVal /\ gen.state \in {"done", "failed"}
LengthAsStated ==
    (ret.op = "iter_dataset" /\ ret.status = "ok")
       => gen.length = IF ret.max_count = NoArg THEN DatasetLen(dataset).len
                       ELSE Min(DatasetLen(dataset).len, ret.max_count[1])
DistinctYields ==
    /\ \A i, j \in 1..Len(gen.yielded) :
          gen.yielded[i].idx = gen.yielded[j].idx => i = j
    /\ \A i \in 1..Len(gen.yielded) :
          /\ gen.yielded[i].idx < Len(NamesAtCall)
          /\ gen.yielded[i].sample.sample_name = NamesAtCall[gen.yielded[i].idx + 1]

C17_Samples ==
    /\ LengthAsStated
    /\ (gen # NoneVal /\ ~gen.disturbed) =>
          /\ gen.state # "failed"
          /\ Len(gen.yielded) + Len(gen.indexes) = (IF gen.state = "created" THEN 0 ELSE gen.length)
          /\ gen.state = "done" => Len(gen.yielded) = gen.length
          /\ DistinctYields
C18_AsStated ==
    /\ (ret.op = "save" /\ ret.as_default) => ret.status = "ok"
    /\ (ret.op = "open" /\ partition # NoneVal)
          => /\ ret.status = "ok"
             /\ dataset.active_partition_name = "default"
             /\ dataset.active_partition = partition


(***************************************************************************)
(* Claims about what Sample.write leaves behind.                            *)
(***************************************************************************)
\* C21 as stated: a Sample.write that succeeds, in either format, leaves
\* sample.bands (same elements, same length) and sample.label as they were.
C21_AsStated ==
    [][(ret'.op = "write" /\ ret'.status = "ok")
          => /\ sample'.bands = sample.bands
             /\ sample'.label = sample.label]_vars


(***************************************************************************)
(* Claims about the partition cache.                                        *)
(***************************************************************************)
\* C22 as stated: load_partition(name) on an instance that has loaded fewer
\* than CacheSize other names since it last loaded name returns the
\* Partition it returned then, whatever the file holds now and whatever the
\* other instances have loaded in between.
C22_AsStated ==
    [][ret'.op = "load_partition"
          => LET h == partition[<<ret'.id, ret'.partition_name>>] IN
             (h.last # NoneVal /\ Cardinality(h.since) < CacheSize)
                => ret'.partition = h.last]_vars


(***************************************************************************)
(* Claims about alt_to_full_names.                                          *)
(***************************************************************************)
Vocabulary == dataset.task_specs.bands_info
NamesOf(info) == {info.name} \cup {info.alt_names[i] : i \in 1..Len(info.alt_names)}
MapReturned == ret.op = "alt_to_full_names" /\ ret.out.status = "ok"
\* the bands of the vocabulary one of whose names was requested
Requested ==
    {i \in 1..Len(Vocabulary) :
        \E n \in 1..Len(ret.band_names) : ret.band_names[n] \in NamesOf(Vocabulary[i])}
NoSharedName ==
    \A i, j \in 1..Len(Vocabulary) :
       NamesOf(Vocabulary[i]) \cap NamesOf(Vocabulary[j]) # {} => i = j

StatedFormat(date) ==
    IF date.kind = "date" THEN "2020-01-" \o DayStr[date.day]
    ELSE "2020-01-" \o DayStr[date.day] \o "_" \o TodStr[date.tod]

\* C24 as stated: the file write_to_geotiff writes is named by the band's
\* canonical name, suffixed by the date in the format of its kind when the
\* band has one; the suffix of a timestamp includes its time of day.
C24_AsStated ==
    (ret.op = "write_to_geotiff" /\ ret.status = "ok")
       => ret.path = BandDir \o "/" \o band.band_info.name
                        \o (IF band.date = NoDate THEN ""
                            ELSE "_" \o StatedFormat(band.date))
                        \o ".tif"


(***************************************************************************)
(* Claims about the grid of a Sample.                                       *)
(***************************************************************************)
Built == ret.op = "Sample"
SameCoordinate(bands) ==
    \E i, j \in 1..Len(bands) :
       /\ i < j
       /\ bands[i].date = bands[j].date
       /\ bands[i].band_info.name = bands[j].band_info.name
\* the band that comes last in the list among those of a date and a name
LastAt(bands, date, name) ==
    LET at == {k \in 1..Len(bands) :
                  bands[k].date = date /\ bands[k].band_info.name = name}
    IN bands[CHOOSE k \in at : \A k2 \in at : k2 <= k]
CellOf(s, date, name) == s.band_array[<<IndexOf(s.dates, date), s.band_name_map[name]>>]
Overwritten ==
    /\ ret.status = "ok"
    /\ \A k \in 1..Len(ret.bands) :
          CellOf(sample, ret.bands[k].date, ret.bands[k].band_info.name)
             = LastAt(ret.bands, ret.bands[k].date, ret.bands[k].band_info.name)
    /\ \A c1, c2 \in DOMAIN sample.band_array :
          (/\ sample.band_array[c1] # NoneVal
           /\ sample.band_array[c2] # NoneVal
           /\ sample.band_array[c1].date = sample.band_array[c2].date
           /\ sample.band_array[c1].band_info.name = sample.band_array[c2].band_info.name)
             => c1 = c2

C30_AsStated ==
    (ret.op = "check_dataset_integrity" /\ ret.assert_dense)
       => /\ (\E c \in DOMAIN sample.band_array : sample.band_array[c] = NoneVal)
                => ret.status = "AssertionError"
          /\ ret.status = "ok"
                => \A c \in DOMAIN sample.band_array : sample.band_array[c] # NoneVal


(***************************************************************************)
(* Claims about the label of a Sample in the hdf5 encoding.                 *)
(***************************************************************************)
Hdf5Loaded == ret.op = "load" /\ ret.format = "hdf5" /\ ret.out.status = "ok"

\* C26 as stated: the Sample load_sample_hdf5 returns from the file of a
\* Sample has, for a label that is a Band with a label-type band_info of any
\* name, a Band label with the same pixel data and band_info, and for a label
\* that is not a Band a label equal to the original.
C26_AsStated ==
    Hdf5Loaded
       => IF sample.label # NoneVal /\ IsBand(sample.label)
          THEN /\ ret.out.sample.label # NoneVal
               /\ IsBand(ret.out.sample.label)
               /\ ret.out.sample.label.data = sample.label.data
               /\ ret.out.sample.label.band_info = sample.label.band_info
          ELSE ret.out.sample.label = sample.label


(***************************************************************************)
(* Claims about the pixels write_to_geotiff stores.                         *)
(***************************************************************************)
Stored == fs[ret.path].data.px

\* C27 as stated: after a write_to_geotiff with convert_to_int16=True that
\* succeeded, every stored pixel that is 0, the nodata value, comes from an
\* input pixel that is exactly 0.
C27_AsStated ==
    (ret.op = "write_to_geotiff" /\ ret.status = "ok" /\ band.convert_to_int16)
       => \A i \in 1..Len(Stored) :
             Stored[i] = IntV(NoData) => band.data.px[i] = IntV(0)

(***************************************************************************)
(* Claims about reading back what write_to_geotiff wrote.                   *)
(***************************************************************************)
\* C28 as stated: every Band that write_to_geotiff wrote successfully is
\* loaded back by load_band_tif without error, a band with 3D data of more
\* than one channel whose band_info is not a MultiBand included.
C28_AsStated ==
    LoadedOwnFile => ret.status = "ok"

(***************************************************************************)
(* Claims about iterating the object of iter_dataset more than once.        *)
(***************************************************************************)
\* C29 as stated: every pass of iteration over the object g that iter_dataset
\* returned yields exactly len(g) samples, a second pass over the same g, made
\* while the dataset still has the split it had at the call, included.
C29_AsStated ==
    (ret.op = "for" /\ ret.before \in {"created", "done"} /\ ~gen.disturbed)
       => ret.status = "ok" /\ ret.count = gen.length

====
